---- MODULE Spec2Model ----
(***************************************************************************)
(* distrohop: the shard store (internal/store), its online Replace, the    *)
(* parallel Search and the refresh pipeline (internal/pull), as a state    *)
(* machine.                                                               *)
(*                                                                         *)
(* A database is the record [pkgs, filters, meta]: the package key space   *)
(* (name -> sorted tag list, the 0x1F-joined value split again), the bloom *)
(* key space ({0x02, c} -> filter) and the metadata key (0x02 "META").     *)
(* Package names are byte sequences; tags are opaque strings ordered by    *)
(* TagOrder, the byte order slices.Sort uses.                              *)
(***************************************************************************)
EXTENDS Integers, Sequences, FiniteSets, TLC

----------------------------------------------------------------------------
(* Bounds of the model *)

\* records received from the importers in one run, at most
MaxRecs == 3
\* calls of Pull (or of Replace, in the store-level specification)
MaxPulls == 2
\* calls one client makes
MaxCalls == 2
\* pull.go:40 is 5000; scaled down so that a flush happens inside MaxRecs
batchSize == 1

----------------------------------------------------------------------------
(* Values *)

\* bytes 'a', 'b'
CharA == 97
CharB == 98

\* package names the importers emit; <<>> is the empty name
NameA == <<97>>
NameB == <<98>>
NameAB == <<97, 98>>
\* "_x": a name whose first byte is none of startChars
NameU == <<95, 120>>
NameEmpty == << >>

\* tags, in the byte order of slices.Sort; "<1F>" stands for the byte 0x1F
TagOrder == <<"bin=foo", "bin=foo<1F>lib=libX.so.1", "lib=libX.so", "lib=libX.so.1">>
Tags == {TagOrder[i] : i \in 1..Len(TagOrder)}
TagRank(t) == CHOOSE i \in 1..Len(TagOrder) : TagOrder[i] = t

\* RepoMeta as stored: absent, or {ETag, LastModified}; LastModified 0 is
\* the zero time
NoMeta == [present |-> FALSE, ETag |-> "", LastModified |-> 0]

\* the function with the empty domain
EmptyMap == [x \in {} |-> x]

Range(s) == {s[i] : i \in 1..Len(s)}

----------------------------------------------------------------------------
(* slices.Sort, slices.Compact *)

RECURSIVE InsertSorted(_, _)
InsertSorted(t, s) ==
  IF s = << >> THEN <<t>>
  ELSE IF TagRank(t) <= TagRank(Head(s)) THEN <<t>> \o s
  ELSE <<Head(s)>> \o InsertSorted(t, Tail(s))

SortTagsKeepsOrder(s) == s

RECURSIVE SortTags(_)
SortTags(s) == IF s = << >> THEN << >> ELSE InsertSorted(Head(s), SortTags(Tail(s)))

RECURSIVE Compact(_)
Compact(s) ==
  IF Len(s) <= 1 THEN s
  ELSE IF s[1] = s[2] THEN Compact(Tail(s))
  ELSE <<Head(s)>> \o Compact(Tail(s))

----------------------------------------------------------------------------
(* sbloom.Filter: the set of bits set; Add sets the bits of a tag, Lookup  *)
(* tests them.  Two tags share bit 2, so a filter can answer "possibly     *)
(* present" for a tag that was never added.                                *)

BloomBits(t) ==
  CASE t = "bin=foo" -> {1}
    [] t = "lib=libX.so" -> {2}
    [] t = "lib=libX.so.1" -> {2, 3}
    [] OTHER -> {4}

NewFilter == {}

BloomAddDropsTag(filter, t) == filter

BloomAdd(filter, t) == filter \cup BloomBits(t)

BloomLookup(filter, t) == BloomBits(t) \subseteq filter

----------------------------------------------------------------------------
(* joinTags: joins the tags (the stored value) and adds each of them to    *)
(* the filter of the name's first byte, creating the filter when absent.   *)

RECURSIVE AddAll(_, _)
AddAll(filter, tags) ==
  IF tags = << >> THEN filter ELSE AddAll(BloomAdd(filter, Head(tags)), Tail(tags))

\* the parts of a tag between its 0x1F bytes; "<1F>" stands for the byte
TagPieces(t) ==
  IF t = "bin=foo<1F>lib=libX.so.1" THEN <<"bin=foo", "lib=libX.so.1">> ELSE <<t>>

\* the tags joined by 0x1F, as the parts between the 0x1F bytes of the
\* value: what strings.Split(value, "\x1F") gives back
RECURSIVE Joined(_)
Joined(tags) ==
  IF tags = << >> THEN << >> ELSE TagPieces(Head(tags)) \o Joined(Tail(tags))

\* joinTags: the tags as stored (joined by 0x1F, split again by GetPkg), and
\* every tag added to the filter of firstChar, made when missing
joinTags(firstChar, tags, filters) ==
  LET have == IF firstChar \in DOMAIN filters THEN filters[firstChar] ELSE NewFilter
  IN [val |-> Joined(tags),
      filters |-> [c \in DOMAIN filters \cup {firstChar} |->
                     IF c = firstChar THEN AddAll(have, tags) ELSE filters[c]]]

----------------------------------------------------------------------------
(* Databases *)

EmptyDB == [pkgs |-> EmptyMap, filters |-> EmptyMap, meta |-> NoMeta]

\* a map's keys in the order the range loop visits them
RECURSIVE KeySeq(_)
KeySeq(S) == IF S = {} THEN << >> ELSE LET k == CHOOSE k \in S : TRUE IN <<k>> \o KeySeq(S \ {k})

\* WriteBatch's loop over the batch: state is [pkgs, filters]
RECURSIVE WriteItems(_, _, _, _)
WriteItems(keys, batch, pkgs, filters) ==
  IF keys = << >> THEN [pkgs |-> pkgs, filters |-> filters]
  ELSE LET item == batch[Head(keys)]
       IN IF Len(item.Name) = 0 \/ Len(item.Tags) = 0
          THEN WriteItems(Tail(keys), batch, pkgs, filters)
          ELSE LET tags == IF item.Name \in DOMAIN pkgs
                           THEN Compact(SortTags(pkgs[item.Name] \o item.Tags))
                           ELSE Compact(SortTags(item.Tags))
                   j == joinTags(item.Name[1], tags, filters)
               IN WriteItems(Tail(keys), batch,
                    [n \in DOMAIN pkgs \cup {item.Name} |->
                       IF n = item.Name THEN j.val ELSE pkgs[n]],
                    j.filters)

\* Store.WriteBatch on an unblocked store: the database after the commit
\* and the caller's filters map after the call
WriteBatch(db, batch, filters) ==
  LET r == WriteItems(KeySeq(DOMAIN batch), batch, db.pkgs, filters)
  IN [db |-> [db EXCEPT !.pkgs = r.pkgs], filters |-> r.filters]

\* the orders a range loop may visit the keys of a map in
KeyOrders(S) ==
  {q \in [1..Cardinality(S) -> S] : \A i, j \in 1..Cardinality(S) : q[i] = q[j] => i = j}

\* Store.WriteBatch with the range loop visiting the batch in the order keys
WriteBatchIn(keys, db, batch, filters) ==
  LET r == WriteItems(keys, batch, db.pkgs, filters)
  IN [db |-> [db EXCEPT !.pkgs = r.pkgs], filters |-> r.filters]

\* Store.WriteFilters: every filter of the map under its {0x02, c} key
WriteFilters(db, filters) ==
  [db EXCEPT !.filters = [c \in DOMAIN db.filters \cup DOMAIN filters |->
                            IF c \in DOMAIN filters THEN filters[c] ELSE db.filters[c]]]

\* a directory of the file system: absent, or a database
NoDir == [exists |-> FALSE, db |-> EmptyDB]
Dir(db) == [exists |-> TRUE, db |-> db]

----------------------------------------------------------------------------
(* encoding/json on RepoMeta.  Marshal coerces a string to valid UTF-8:    *)
(* every invalid byte becomes U+FFFD; Unmarshal returns the coerced text.  *)
(* A stored meta is written here as the value its JSON text decodes to.    *)

\* ETag header values: none, an ASCII one, and one with an obs-text byte
\* (RFC 7232 etagc allows %x80-FF), which is not valid UTF-8
ETagNone == ""
ETagObs == "\"v\\xFF\""
ETagObsCoerced == "\"v\\uFFFD\""
ETags == {ETagNone, "\"v1\"", ETagObs}

ToValidUTF8(str) == IF str = ETagObs THEN ETagObsCoerced ELSE str

\* json.Marshal(meta): strings coerced to valid UTF-8
JsonMarshal(meta) ==
  [present |-> TRUE, ETag |-> ToValidUTF8(meta.ETag), LastModified |-> meta.LastModified]

JsonUnmarshal(stored) == [ETag |-> stored.ETag, LastModified |-> stored.LastModified]

\* Store.WriteMeta on an unblocked store
WriteMeta(db, meta) == [db EXCEPT !.meta = JsonMarshal(meta)]

----------------------------------------------------------------------------
(* Reads of a database *)

ErrNone == "nil"
ErrBlocked == "ErrBlocked"
ErrNotFound == "pebble.ErrNotFound"
Panic == "panic"

\* Store.GetPkg's read: the value split on 0x1F
GetPkgValue(db, name) ==
  IF name \in DOMAIN db.pkgs
  THEN [err |-> ErrNone, Name |-> name, Tags |-> db.pkgs[name]]
  ELSE [err |-> ErrNotFound, Name |-> << >>, Tags |-> << >>]

\* Store.GetFilter's read
GetFilterValue(db, c) ==
  IF c \in DOMAIN db.filters
  THEN [err |-> ErrNone, filter |-> db.filters[c]]
  ELSE [err |-> ErrNotFound, filter |-> NewFilter]

\* Store.GetMeta's read
GetMetaValue(db) ==
  IF db.meta.present
  THEN [err |-> ErrNone, meta |-> JsonUnmarshal(db.meta)]
  ELSE [err |-> ErrNotFound, meta |-> [ETag |-> "", LastModified |-> 0]]

----------------------------------------------------------------------------
(* Byte order of keys, and Store.GetPkgNamesByPrefix's scan *)

RECURSIVE LexLess(_, _)
LexLess(a, b) ==
  IF b = << >> THEN FALSE
  ELSE IF a = << >> THEN TRUE
  ELSE IF Head(a) # Head(b) THEN Head(a) < Head(b)
  ELSE LexLess(Tail(a), Tail(b))

metaKey == <<2, 77, 69, 84, 65>>

\* every key of the database: package names, {0x02, c}, 0x02 "META"
Keys(db) ==
  DOMAIN db.pkgs \cup {<<2, c>> : c \in DOMAIN db.filters}
    \cup (IF db.meta.present THEN {metaKey} ELSE {})

RECURSIVE SortKeys(_)
SortKeys(S) ==
  IF S = {} THEN << >>
  ELSE LET k == CHOOSE k \in S : \A j \in S : j = k \/ LexLess(k, j)
       IN <<k>> \o SortKeys(S \ {k})

\* the keys an iterator with bounds [lo, hi) yields, in order
IterKeys(db, lo, hi) ==
  SortKeys({k \in Keys(db) : ~LexLess(k, lo) /\ LexLess(k, hi)})

\* prefix with its last byte incremented (a byte: it wraps at 256)
UpperBound(prefix) ==
  SubSeq(prefix, 1, Len(prefix) - 1) \o <<(prefix[Len(prefix)] + 1) % 256>>

\* the scan loop: it leaves when i = n-1
RECURSIVE TakeNames(_, _, _)
TakeNames(keys, i, n) ==
  IF keys = << >> \/ i = n - 1 THEN << >>
  ELSE <<Head(keys)>> \o TakeNames(Tail(keys), i + 1, n)

GetPkgNamesByPrefixValue(db, prefix, n) ==
  IF Len(prefix) = 0
  THEN [err |-> Panic, names |-> << >>]
  ELSE [err |-> ErrNone,
        names |-> TakeNames(IterKeys(db, prefix, UpperBound(prefix)), 0, n)]

----------------------------------------------------------------------------
(* Sample databases: what WriteBatch, WriteFilters and WriteMeta build     *)

Rec(name, tags) == [Name |-> name, Tags |-> tags]

BuildDB(batch, meta) ==
  LET w == WriteBatch(EmptyDB, batch, EmptyMap)
  IN WriteMeta(WriteFilters(w.db, w.filters), meta)

BatchA == [n \in {NameA} |-> Rec(NameA, <<"bin=foo">>)]
BatchB == [n \in {NameB} |-> Rec(NameB, <<"lib=libX.so.1", "bin=foo">>)]

DBA == BuildDB(BatchA, [ETag |-> "\"v1\"", LastModified |-> 1])
DBB == BuildDB(BatchB, [ETag |-> "\"v2\"", LastModified |-> 2])

\* a shard of four packages, as a Pull of these records leaves it
BatchQ ==
  [n \in {NameA, NameAB, NameB, NameU} |->
     CASE n = NameA -> Rec(NameA, <<"bin=foo", "lib=libX.so.1">>)
       [] n = NameAB -> Rec(NameAB, <<"lib=libX.so.1">>)
       [] OTHER -> Rec(n, <<"bin=foo">>)]
DBQ == BuildDB(BatchQ, [ETag |-> "\"v1\"", LastModified |-> 1])

\* contents the live shard starts with, and contents Replace is handed
InitialDBs == {EmptyDB, DBA}
ShadowDBs == {DBA, DBB}

----------------------------------------------------------------------------
(* State *)

VARIABLES
  fs,      \* the shard's parent directory: [live, old, tmp], the directories
           \* db and db-old and the distrohop-pull.* directories in
           \* creation order
  store,   \* the live Store: [db, readers, wowner, epoch]; db is the state of
           \* the handle s.db, readers and wowner are the RWMutex blocked,
           \* epoch counts the assignments of s.db
  status,  \* [up, restarts]: up is FALSE once the process has died (a
           \* panic outside a recovered call, or a kill)
  lim,     \* the run's limits: [pulls, recs, calls], the calls of Pull or
           \* Replace, the records received, and the calls of each caller
  proc,    \* the refresh tasks, one record each (Pull and Replace)
  cli,     \* the callers of the store's operations, one record each
  srch,    \* the Search call: [pc, tags, opts, results, res]
  wrk,     \* the Search workers, one record each
  comb,    \* the combined store of a repository: its shards, the call in
           \* progress and its goroutines, one per shard
  cch,     \* the cached store: its cache and the last call made through it
  calc     \* the last call of a function of the index and tags packages:
           \* [op, arg, out]

vars == <<fs, store, status, lim, proc, cli, srch, wrk, comb, cch, calc>>

Procs == {1}
Clients == {1}

\* the replacer is past Lock: it holds the exclusive lock
Critical == {"closeS2", "closeS", "rename1", "rename2", "reopen", "unlock"}

LockHeld == \E p \in Procs : store.wowner = p /\ proc[p].pc \in Critical

----------------------------------------------------------------------------
(* sync.RWMutex *)

TryRLockIgnoresWriter(st) == TRUE

\* TryRLock succeeds unless a writer holds the lock or waits for it
TryRLock(st) == st.wowner = 0

RLocked(st) == [st EXCEPT !.readers = @ + 1]
RUnlocked(st) == [st EXCEPT !.readers = @ - 1]
\* an Unlock that leaves the writer in place
UnlockSkipped(st) == st

Unlocked(st) == [st EXCEPT !.wowner = 0]

----------------------------------------------------------------------------
(* Store.Replace, one action per statement *)

NoResponse == [ok |-> FALSE, ETag |-> "", LastModified |-> 0]

\* pc, res: where the task is and what its last call returned; s2dir, s2db:
\* the second store's directory and handle; rnew, rold: the second store's
\* contents and the live directory when Replace was called; urls, errs, resp,
\* collected, filters, i: Pull's locals; emitted: the records this call has
\* received; nrecs: the records received by all calls; prev: the result and
\* the response's ETag of the call before; done: the Pulls that returned nil
\* through Replace, and the headers of the last one's response
ProcInit ==
  [pc |-> "idle", res |-> "none", ncalls |-> 0, s2dir |-> 0, s2db |-> "none",
   rnew |-> EmptyDB, rold |-> NoDir, started |-> NoDir,
   urls |-> 0, errs |-> 0, resp |-> NoResponse,
   collected |-> EmptyMap, filters |-> EmptyMap, i |-> 0, nrecs |-> 0, emitted |-> {},
   prev |-> [res |-> "none", ETag |-> ""],
   done |-> [n |-> 0, ETag |-> "", LastModified |-> 0]]

Return(p, r) == proc' = [proc EXCEPT ![p].pc = "ret", ![p].res = r]

\* a caller hands Replace a second store, open on a directory of its own
CallReplace(p) ==
  /\ proc[p].pc \in {"idle", "ret"}
  /\ proc[p].ncalls < lim.pulls
  /\ \E d \in ShadowDBs :
       /\ fs' = [fs EXCEPT !.tmp = Append(@, Dir(d))]
       /\ proc' = [proc EXCEPT ![p] =
            [ProcInit EXCEPT !.pc = "rmOld", !.ncalls = proc[p].ncalls + 1,
                             !.s2dir = Len(fs.tmp) + 1, !.s2db = "open",
                             !.rnew = d, !.rold = fs.live, !.started = fs.live,
                             !.done = proc[p].done]]
  /\ UNCHANGED <<store, status, cli, srch, wrk, lim, comb, cch, calc>>

\* os.RemoveAll(oldPath), before the lock
RemoveOldFirst(p) ==
  /\ proc[p].pc = "rmOld"
  /\ \E ok \in BOOLEAN :
       IF ok
       THEN /\ fs' = [fs EXCEPT !.old = NoDir]
            /\ proc' = [proc EXCEPT ![p].pc = "lock"]
       ELSE /\ Return(p, "err:removeall")
            /\ UNCHANGED <<fs, comb, cch, calc>>
  /\ UNCHANGED <<store, status, cli, srch, wrk, lim, comb, cch, calc>>

\* s.blocked.Lock(): announce the writer, then wait for the readers
LockAnnounce(p) ==
  /\ proc[p].pc = "lock"
  /\ store.wowner = 0
  /\ store' = [store EXCEPT !.wowner = p]
  /\ proc' = [proc EXCEPT ![p].pc = "drain"]
  /\ UNCHANGED <<fs, status, cli, srch, wrk, lim, comb, cch, calc>>

LockAcquire(p) ==
  /\ proc[p].pc = "drain"
  /\ store.readers = 0
  /\ proc' = [proc EXCEPT ![p].pc = "closeS2"]
  /\ UNCHANGED <<fs, store, status, cli, srch, wrk, lim, comb, cch, calc>>

\* s2.db.Close()
CloseShadow(p) ==
  /\ proc[p].pc = "closeS2"
  /\ \E ok \in BOOLEAN :
       IF ok
       THEN /\ proc' = [proc EXCEPT ![p].pc = "closeS", ![p].s2db = "closed"]
            /\ UNCHANGED <<store, comb, cch, calc>>
       ELSE /\ proc' = [proc EXCEPT ![p].pc = "ret", ![p].res = "err:close2",
                                    ![p].s2db = "closed"]
            /\ store' = Unlocked(store)
  /\ UNCHANGED <<fs, status, cli, srch, wrk, lim, comb, cch, calc>>

\* s.db.Close(); closing a closed pebble.DB panics
CloseLive(p) ==
  /\ proc[p].pc = "closeS"
  /\ IF store.db = "closed"
     THEN /\ status' = [status EXCEPT !.up = FALSE]
          /\ UNCHANGED <<store, proc, comb, cch, calc>>
     ELSE /\ UNCHANGED <<status, comb, cch, calc>>
          /\ \E ok \in BOOLEAN :
               IF ok
               THEN /\ store' = [store EXCEPT !.db = "closed"]
                    /\ proc' = [proc EXCEPT ![p].pc = "rename1"]
               ELSE /\ store' = Unlocked([store EXCEPT !.db = "closed"])
                    /\ Return(p, "err:close")
  /\ UNCHANGED <<fs, cli, srch, wrk, lim, comb, cch, calc>>

\* os.Rename(s.Path, oldPath)
RenameLiveToOld(p) ==
  /\ proc[p].pc = "rename1"
  /\ \E ok \in BOOLEAN :
       IF ok /\ fs.live.exists /\ ~fs.old.exists
       THEN /\ fs' = [fs EXCEPT !.old = fs.live, !.live = NoDir]
            /\ proc' = [proc EXCEPT ![p].pc = "rename2"]
            /\ UNCHANGED <<store, comb, cch, calc>>
       ELSE /\ store' = Unlocked(store)
            /\ Return(p, "err:rename1")
            /\ UNCHANGED <<fs, comb, cch, calc>>
  /\ UNCHANGED <<status, cli, srch, wrk, lim, comb, cch, calc>>

\* os.Rename(s2.Path, s.Path); on failure Unlock, then the rollback
RenameShadowToLive(p) ==
  /\ proc[p].pc = "rename2"
  /\ \E ok \in BOOLEAN :
       IF ok /\ fs.tmp[proc[p].s2dir].exists /\ ~fs.live.exists
       THEN /\ fs' = [fs EXCEPT !.live = fs.tmp[proc[p].s2dir],
                                !.tmp[proc[p].s2dir] = NoDir]
            /\ proc' = [proc EXCEPT ![p].pc = "reopen"]
            /\ UNCHANGED <<store, comb, cch, calc>>
       ELSE /\ store' = Unlocked(store)
            /\ proc' = [proc EXCEPT ![p].pc = "rollback"]
            /\ UNCHANGED <<fs, comb, cch, calc>>
  /\ UNCHANGED <<status, cli, srch, wrk, lim, comb, cch, calc>>

\* os.Rename(oldPath, s.Path), joined to the error returned
Rollback(p) ==
  /\ proc[p].pc = "rollback"
  /\ \E ok \in BOOLEAN :
       IF ok /\ fs.old.exists /\ ~fs.live.exists
       THEN fs' = [fs EXCEPT !.live = fs.old, !.old = NoDir]
       ELSE UNCHANGED <<fs, comb, cch, calc>>
  /\ Return(p, "err:rename2")
  /\ UNCHANGED <<store, status, cli, srch, wrk, lim, comb, cch, calc>>

\* pebble.Open(s.Path) and s.db = db; Open creates a missing database
Reopen(p) ==
  /\ proc[p].pc = "reopen"
  /\ \E ok \in BOOLEAN :
       IF ok
       THEN /\ store' = [store EXCEPT !.db = "open", !.epoch = @ + 1]
            /\ proc' = [proc EXCEPT ![p].pc = "unlock"]
            /\ fs' = IF fs.live.exists THEN fs ELSE [fs EXCEPT !.live = Dir(EmptyDB)]
       ELSE /\ store' = Unlocked(store)
            /\ Return(p, "err:open")
            /\ UNCHANGED <<fs, comb, cch, calc>>
  /\ UNCHANGED <<status, cli, srch, wrk, lim, comb, cch, calc>>

\* s.blocked.Unlock() of the success path
Unlock(p) ==
  /\ proc[p].pc = "unlock"
  /\ store' = Unlocked(store)
  /\ proc' = [proc EXCEPT ![p].pc = "rmOld2"]
  /\ UNCHANGED <<fs, status, cli, srch, wrk, lim, comb, cch, calc>>

RemoveOldLastKeepsOld(p) ==
  /\ proc[p].pc = "rmOld2"
  /\ Return(p, "nil")
  /\ UNCHANGED <<fs, store, status, cli, srch, wrk, lim, comb, cch, calc>>

\* return os.RemoveAll(oldPath)
RemoveOldLast(p) ==
  /\ proc[p].pc = "rmOld2"
  /\ \E ok \in BOOLEAN :
       IF ok
       THEN /\ fs' = [fs EXCEPT !.old = NoDir]
            /\ proc' = [proc EXCEPT ![p].pc = "ret", ![p].res = "nil",
                          ![p].done = IF proc[p].resp.ok
                                      THEN [n |-> @.n + 1, ETag |-> proc[p].resp.ETag,
                                            LastModified |-> proc[p].resp.LastModified]
                                      ELSE @]
       ELSE /\ Return(p, "err:removeall2")
            /\ UNCHANGED <<fs, comb, cch, calc>>
  /\ UNCHANGED <<store, status, cli, srch, wrk, lim, comb, cch, calc>>

Replace(p) ==
  \/ RemoveOldFirst(p)
  \/ LockAnnounce(p)
  \/ LockAcquire(p)
  \/ CloseShadow(p)
  \/ CloseLive(p)
  \/ RenameLiveToOld(p)
  \/ RenameShadowToLive(p)
  \/ Rollback(p)
  \/ Reopen(p)
  \/ Unlock(p)
  \/ RemoveOldLast(p)

----------------------------------------------------------------------------
(* pull.Pull, one action per statement that can fail or be observed *)

\* Last-Modified header values: 0 none, -1 not RFC1123, else a time

\* records the importers send: a name and the tags of one file path; the
\* name is empty for a package field that ends in '/', the tags are empty
\* for a path tags.Generate finds nothing in
Records ==
  {Rec(NameA, <<"bin=foo">>), Rec(NameA, <<"lib=libX.so.1", "lib=libX.so">>),
   Rec(NameB, <<"bin=foo">>), Rec(NameB, << >>), Rec(NameEmpty, <<"bin=foo">>)}

\* the ETag and Last-Modified headers of the responses
Responses ==
  {[ok |-> TRUE, ETag |-> e, LastModified |-> 0] : e \in ETags}
    \cup {[ok |-> TRUE, ETag |-> ETagNone, LastModified |-> lm] : lm \in {1, -1}}
    \cup {[ok |-> TRUE, ETag |-> "\"v1\"", LastModified |-> 1]}

\* the stages of Pull before it calls Replace
PrePhases == {"get", "meta", "mkdir", "open", "recv", "final", "filters", "wmeta"}

\* the check of the stored metadata against the response's headers
UpToDate(meta, resp) ==
  \/ resp.ETag # "" /\ resp.ETag = meta.ETag
  \/ /\ resp.LastModified # 0
     /\ meta.LastModified # 0
     /\ resp.LastModified > 0
     /\ meta.LastModified >= resp.LastModified

CollectOverwrites(collected, rec) ==
  [n \in DOMAIN collected \cup {rec.Name} |->
     IF n # rec.Name THEN collected[n] ELSE rec]

\* collected[rec.Name] = rec, or the tags appended to the record held
Collect(collected, rec) ==
  [n \in DOMAIN collected \cup {rec.Name} |->
     IF n # rec.Name THEN collected[n]
     ELSE IF n \in DOMAIN collected
          THEN [collected[n] EXCEPT !.Tags = @ \o rec.Tags]
          ELSE rec]

WriteLiveInstead(f, dir, db) == [f EXCEPT !.live.db = db]

\* the store Pull writes: s2, opened on the temporary directory
WriteShadow(f, dir, db) == [f EXCEPT !.tmp[dir].db = db]

\* errors.Join(errs...): nil when no error was collected
JoinErrs(n) == IF n = 0 THEN "nil" ELSE "err:http"

\* importer.IndexURL, then the loop over the candidate URLs starts
CallPull(p) ==
  /\ proc[p].pc \in {"idle", "ret"}
  /\ proc[p].ncalls < lim.pulls
  /\ \E n \in 0..2 :
       proc' = [proc EXCEPT ![p] =
         IF n = 0
         THEN [ProcInit EXCEPT !.pc = "ret", !.res = "err:indexurl",
                               !.ncalls = proc[p].ncalls + 1, !.started = fs.live,
                               !.nrecs = proc[p].nrecs, !.done = proc[p].done,
                               !.prev = [res |-> proc[p].res, ETag |-> proc[p].resp.ETag]]
         ELSE [ProcInit EXCEPT !.pc = "get", !.urls = n,
                               !.ncalls = proc[p].ncalls + 1, !.started = fs.live,
                               !.nrecs = proc[p].nrecs, !.done = proc[p].done,
                               !.prev = [res |-> proc[p].res, ETag |-> proc[p].resp.ETag]]]
  /\ UNCHANGED <<fs, store, status, lim, cli, srch, wrk, comb, cch, calc>>

\* one http.Get of the loop, or the loop's end without a response
PullGet(p) ==
  /\ proc[p].pc = "get"
  /\ IF proc[p].urls = 0
     THEN Return(p, JoinErrs(proc[p].errs))
     ELSE \E how \in {"neterr", "status", "ok"} :
            CASE how = "neterr" -> proc' = [proc EXCEPT ![p].urls = @ - 1]
              [] how = "status" ->
                   proc' = [proc EXCEPT ![p].urls = @ - 1, ![p].errs = @ + 1]
              [] how = "ok" ->
                   \E r \in Responses :
                     proc' = [proc EXCEPT ![p].pc = "meta", ![p].resp = r]
  /\ UNCHANGED <<fs, store, status, lim, cli, srch, wrk, comb, cch, calc>>

\* s.GetMeta() and the two freshness tests
PullCheckMeta(p) ==
  /\ proc[p].pc = "meta"
  /\ IF ~TryRLock(store)
     THEN /\ proc' = [proc EXCEPT ![p].pc = "mkdir"]
          /\ UNCHANGED <<status, comb, cch, calc>>
     ELSE IF store.db = "closed"
     THEN /\ status' = [status EXCEPT !.up = FALSE]
          /\ UNCHANGED <<proc, comb, cch, calc>>
     ELSE LET m == GetMetaValue(fs.live.db)
          IN /\ UNCHANGED <<status, comb, cch, calc>>
             /\ IF m.err = ErrNone /\ UpToDate(m.meta, proc[p].resp)
                THEN Return(p, "ErrUpToDate")
                ELSE proc' = [proc EXCEPT ![p].pc = "mkdir"]
  /\ UNCHANGED <<fs, store, lim, cli, srch, wrk, comb, cch, calc>>

\* os.MkdirTemp(filepath.Dir(s.Path), "distrohop-pull.*")
PullMkdir(p) ==
  /\ proc[p].pc = "mkdir"
  /\ \E ok \in BOOLEAN :
       IF ok
       THEN /\ fs' = [fs EXCEPT !.tmp = Append(@, Dir(EmptyDB))]
            /\ proc' = [proc EXCEPT ![p].pc = "open", ![p].s2dir = Len(fs.tmp) + 1]
       ELSE /\ Return(p, "err:mkdir")
            /\ UNCHANGED <<fs, comb, cch, calc>>
  /\ UNCHANGED <<store, status, lim, cli, srch, wrk, comb, cch, calc>>

\* store.Open(dir); the importer task starts
PullOpen(p) ==
  /\ proc[p].pc = "open"
  /\ \E ok \in BOOLEAN :
       IF ok
       THEN proc' = [proc EXCEPT ![p].pc = "recv", ![p].s2db = "open"]
       ELSE Return(p, "err:open2")
  /\ UNCHANGED <<fs, store, status, lim, cli, srch, wrk, comb, cch, calc>>

\* one receive of the loop over the record channel: a record (merged into
\* collected, flushed when i >= batchSize), an error record, or the close
PullRecv(p) ==
  /\ proc[p].pc = "recv"
  /\ \/ /\ proc[p].nrecs < lim.recs
        /\ \E rec \in Records, ok \in BOOLEAN :
           \E keys \in KeyOrders(DOMAIN Collect(proc[p].collected, rec)) :
             LET col == Collect(proc[p].collected, rec)
                 w == WriteBatchIn(keys, fs.tmp[proc[p].s2dir].db, col, proc[p].filters)
             IN IF proc[p].i >= batchSize
                THEN IF ok
                     THEN /\ fs' = WriteShadow(fs, proc[p].s2dir, w.db)
                          /\ proc' = [proc EXCEPT ![p].collected = EmptyMap,
                                        ![p].filters = w.filters, ![p].i = 1,
                                        ![p].nrecs = @ + 1,
                                        ![p].emitted = @ \cup {rec}]
                     ELSE /\ proc' = [proc EXCEPT ![p].pc = "ret",
                                        ![p].res = "err:writebatch",
                                        ![p].nrecs = @ + 1,
                                        ![p].emitted = @ \cup {rec}]
                          /\ UNCHANGED <<fs, comb, cch, calc>>
                ELSE /\ proc' = [proc EXCEPT ![p].collected = col, ![p].i = @ + 1,
                                   ![p].nrecs = @ + 1,
                                        ![p].emitted = @ \cup {rec}]
                     /\ UNCHANGED <<fs, comb, cch, calc>>
     \/ /\ Return(p, "err:importer")
        /\ UNCHANGED <<fs, comb, cch, calc>>
     \/ /\ proc' = [proc EXCEPT ![p].pc = "final"]
        /\ UNCHANGED <<fs, comb, cch, calc>>
  /\ UNCHANGED <<store, status, lim, cli, srch, wrk, comb, cch, calc>>

\* the flush of what is left in collected
PullFinalFlush(p) ==
  /\ proc[p].pc = "final"
  /\ IF proc[p].collected = EmptyMap
     THEN /\ proc' = [proc EXCEPT ![p].pc = "filters"]
          /\ UNCHANGED <<fs, comb, cch, calc>>
     ELSE \E ok \in BOOLEAN, keys \in KeyOrders(DOMAIN proc[p].collected) :
            LET w == WriteBatchIn(keys, fs.tmp[proc[p].s2dir].db, proc[p].collected,
                                  proc[p].filters)
            IN IF ok
               THEN /\ fs' = WriteShadow(fs, proc[p].s2dir, w.db)
                    /\ proc' = [proc EXCEPT ![p].pc = "filters", ![p].filters = w.filters]
               ELSE /\ Return(p, "err:writebatch")
                    /\ UNCHANGED <<fs, comb, cch, calc>>
  /\ UNCHANGED <<store, status, lim, cli, srch, wrk, comb, cch, calc>>

\* s2.WriteFilters(filters)
PullWriteFilters(p) ==
  /\ proc[p].pc = "filters"
  /\ \E ok \in BOOLEAN :
       IF ok
       THEN /\ fs' = WriteShadow(fs, proc[p].s2dir,
                       WriteFilters(fs.tmp[proc[p].s2dir].db, proc[p].filters))
            /\ proc' = [proc EXCEPT ![p].pc = "wmeta"]
       ELSE /\ Return(p, "err:writefilters")
            /\ UNCHANGED <<fs, comb, cch, calc>>
  /\ UNCHANGED <<store, status, lim, cli, srch, wrk, comb, cch, calc>>

\* the metadata of the response (Last-Modified parsed when present),
\* s2.WriteMeta(meta), and the call of s.Replace(s2)
PullWriteMeta(p) ==
  /\ proc[p].pc = "wmeta"
  /\ \E ok \in BOOLEAN :
       LET r == proc[p].resp
           db == WriteMeta(fs.tmp[proc[p].s2dir].db,
                   [ETag |-> r.ETag, LastModified |-> r.LastModified])
       IN IF r.LastModified < 0
          THEN /\ Return(p, "err:parse")
               /\ UNCHANGED <<fs, comb, cch, calc>>
          ELSE IF ok
          THEN /\ fs' = WriteShadow(fs, proc[p].s2dir, db)
               /\ proc' = [proc EXCEPT ![p].pc = "rmOld", ![p].rnew = db,
                                       ![p].rold = fs.live]
          ELSE /\ Return(p, "err:writemeta")
               /\ UNCHANGED <<fs, comb, cch, calc>>
  /\ UNCHANGED <<store, status, lim, cli, srch, wrk, comb, cch, calc>>

Pull(p) ==
  \/ PullGet(p)
  \/ PullCheckMeta(p)
  \/ PullMkdir(p)
  \/ PullOpen(p)
  \/ PullRecv(p)
  \/ PullFinalFlush(p)
  \/ PullWriteFilters(p)
  \/ PullWriteMeta(p)

----------------------------------------------------------------------------
(* The store's operations as their callers see them: TryRLock or           *)
(* ErrBlocked, then the access to s.db under the read lock, then RUnlock.  *)

Op(kind, name, n) == [kind |-> kind, name |-> name, n |-> n]

ReadOps ==
  {Op("GetPkg", NameA, 0), Op("GetPkg", NameB, 0),
   Op("GetPkgNamesByPrefix", NameA, 2), Op("GetFilter", NameA, 0),
   Op("GetMeta", << >>, 0)}

WriteOps ==
  {Op("WriteMeta", << >>, 0), Op("WriteBatch", << >>, 0),
   Op("WriteFilters", << >>, 0), Op("Close", << >>, 0)}

\* the arguments the write operations are called with
ArgMeta == [ETag |-> "\"v1\"", LastModified |-> 1]
ArgFilters == [c \in {CharA} |-> BloomBits("bin=foo")]

NoResult == [err |-> "none", val |-> << >>]

CliInit ==
  [pc |-> "idle", op |-> Op("none", << >>, 0), res |-> NoResult, ncalls |-> 0,
   under |-> FALSE, touched |-> FALSE, blockedIn |-> 0]

\* what the operation returns on database db
OpResult(op, db) ==
  CASE op.kind = "GetPkg" ->
         LET r == GetPkgValue(db, op.name) IN [err |-> r.err, val |-> r.Tags]
    [] op.kind = "GetPkgNamesByPrefix" ->
         LET r == GetPkgNamesByPrefixValue(db, op.name, op.n)
         IN [err |-> r.err, val |-> r.names]
    [] op.kind = "GetFilter" ->
         LET r == GetFilterValue(db, op.name[1]) IN [err |-> r.err, val |-> <<r.filter>>]
    [] op.kind = "GetMeta" ->
         LET r == GetMetaValue(db) IN [err |-> r.err, val |-> <<r.meta>>]
    [] OTHER -> [err |-> ErrNone, val |-> << >>]

\* the database after the operation
OpEffect(op, db) ==
  CASE op.kind = "WriteMeta" -> WriteMeta(db, ArgMeta)
    [] op.kind = "WriteBatch" -> WriteBatch(db, BatchB, EmptyMap).db
    [] op.kind = "WriteFilters" -> WriteFilters(db, ArgFilters)
    [] OTHER -> db

\* the call starts: TryRLock, or return ErrBlocked
ClientBegin(c, ops) ==
  /\ cli[c].pc \in {"idle", "ret"}
  /\ cli[c].ncalls < lim.calls
  /\ \E op \in ops :
       IF TryRLock(store)
       THEN /\ store' = RLocked(store)
            /\ cli' = [cli EXCEPT ![c] =
                 [@ EXCEPT !.pc = "in", !.op = op, !.res = NoResult, !.ncalls = @ + 1,
                           !.under = LockHeld, !.touched = FALSE]]
       ELSE /\ UNCHANGED <<store, comb, cch, calc>>
            /\ cli' = [cli EXCEPT ![c] =
                 [@ EXCEPT !.pc = "ret", !.op = op, !.ncalls = @ + 1,
                           !.res = [err |-> ErrBlocked, val |-> << >>],
                           !.under = LockHeld, !.touched = FALSE,
                           !.blockedIn = proc[store.wowner].ncalls]]
  /\ UNCHANGED <<fs, status, proc, srch, wrk, lim, comb, cch, calc>>

\* the call's access to s.db, and the deferred RUnlock; a closed pebble.DB
\* panics
ClientBody(c) ==
  /\ cli[c].pc = "in"
  /\ LET op == cli[c].op IN
       IF store.db = "closed"
       THEN /\ cli' = [cli EXCEPT ![c].pc = "ret", ![c].touched = TRUE,
                                  ![c].res = [err |-> Panic, val |-> << >>]]
            /\ store' = RUnlocked(store)
            /\ UNCHANGED <<fs, comb, cch, calc>>
       ELSE /\ cli' = [cli EXCEPT ![c].pc = "ret", ![c].touched = TRUE,
                                  ![c].res = OpResult(op, fs.live.db)]
            /\ store' = RUnlocked(IF op.kind = "Close"
                                  THEN [store EXCEPT !.db = "closed"] ELSE store)
            /\ fs' = [fs EXCEPT !.live.db = OpEffect(op, @)]
  /\ UNCHANGED <<status, proc, srch, wrk, lim, comb, cch, calc>>

----------------------------------------------------------------------------
(* Store.Search: the ranges, overlap, SortResults, and the workers *)

\* workers of one Search (Store.SearchThreads)
SearchThreads == 2
Workers == 1..SearchThreads

\* startChars, cut down to the first bytes the model's names have; the
\* range of c is [{c}, {c+1})
startChars == <<CharA, CharB>>

\* the characters of the tags Search is called with, by class: "w" a word
\* character, "=" the equals sign, "o" any other character but newline
TagText(t) ==
  CASE t = "bin=foo" -> <<"w", "w", "w", "=", "w", "w", "w">>
    [] t = "lib=libX.so" -> <<"w", "w", "w", "=", "w", "w", "w", "w", "o", "w", "w">>
    [] t = "lib=libX.so.1" ->
         <<"w", "w", "w", "=", "w", "w", "w", "w", "o", "w", "w", "o", "w">>
    [] t = "justfoo" -> <<"w", "w", "w", "w", "w", "w", "w">>
    [] t = "a b=c" -> <<"w", "o", "w", "=", "w">>
    [] t = "bin=foo<1F>lib=libX.so.1" ->
         <<"w", "w", "w", "=", "w", "w", "w", "o", "w", "w", "w", "=", "w", "w", "w", "w",
           "o", "w", "w", "o", "w">>
    [] OTHER -> << >>

\* a tag as the specification's glossary defines it: a kind of word
\* characters only, the equals sign, a value that is not empty
TagForm(t) ==
  LET x == TagText(t)
  IN \E j \in 2..(Len(x) - 1) : x[j] = "=" /\ \A k \in 1..(j - 1) : x[k] = "w"

\* tagRegex.MatchString(tag), tagRegex being \w+=.+ without anchors: some
\* word character stands right before an equals sign that another
\* character follows
TagMatches(t) ==
  LET x == TagText(t)
  IN \E j \in 2..(Len(x) - 1) : x[j] = "=" /\ x[j - 1] = "w" /\ x[j + 1] # "n"

\* tag lists Search is called with
SearchInputs == {<<"bin=foo">>, <<"lib=libX.so", "bin=foo">>, <<"justfoo">>}

RECURSIVE overlapTags(_, _)
overlapTags(stags, ptags) ==
  IF stags = << >> THEN << >>
  ELSE (IF Head(stags) \in Range(ptags) THEN <<Head(stags)>> ELSE << >>)
         \o overlapTags(Tail(stags), ptags)

overlapOverPackageTags(stags, ptags) ==
  LET o == overlapTags(stags, ptags)
  IN [tags |-> o, conf |-> [num |-> Len(o), den |-> Len(ptags)]]

\* overlap: the tags of stags that ptags holds, and the confidence
\* len(overlapTags) / len(stags) as the fraction [num, den]
overlap(stags, ptags) ==
  LET o == overlapTags(stags, ptags)
  IN [tags |-> o, conf |-> [num |-> Len(o), den |-> Len(stags)]]

ConfLess(a, b) == a.num * b.den < b.num * a.den

ResultBeforeByConfidence(a, b) == ConfLess(b.Confidence, a.Confidence)

\* SortResults' comparison: a sorts before b
ResultBefore(a, b) ==
  \/ ConfLess(b.Confidence, a.Confidence)
  \/ /\ ~ConfLess(a.Confidence, b.Confidence)
     /\ LexLess(a.Name, b.Name)

RECURSIVE InsertResult(_, _)
InsertResult(r, s) ==
  IF s = << >> THEN <<r>>
  ELSE IF ResultBefore(Head(s), r) THEN <<Head(s)>> \o InsertResult(r, Tail(s))
  ELSE <<r>> \o s

RECURSIVE SortResults(_)
SortResults(s) == IF s = << >> THEN << >> ELSE InsertResult(Head(s), SortResults(Tail(s)))

\* the scan of one range: a TagResult for every package of the range whose
\* confidence is not zero; epoch records which database the range was read in
RECURSIVE ScanKeys(_, _, _, _)
ScanKeys(keys, db, tags, epoch) ==
  IF keys = << >> THEN << >>
  ELSE LET o == overlap(tags, db.pkgs[Head(keys)])
       IN (IF o.conf.num = 0 THEN << >>
           ELSE <<[Confidence |-> o.conf, Overlap |-> o.tags, Name |-> Head(keys),
                   Tags |-> db.pkgs[Head(keys)], epoch |-> epoch]>>)
            \o ScanKeys(Tail(keys), db, tags, epoch)

ScanRange(db, c, tags, epoch) ==
  ScanKeys(IterKeys(db, <<c>>, <<c + 1>>), db, tags, epoch)

\* some tag of the list is possibly present in the filter
AnyLookup(filter, tags) == \E i \in 1..Len(tags) : BloomLookup(filter, tags[i])

\* prev: the tags, the result and the list of the call before; n: the calls
SrchInit ==
  [pc |-> "idle", tags |-> << >>, opts |-> << >>, results |-> << >>, res |-> "none",
   out |-> << >>, n |-> 0, prev |-> [tags |-> << >>, res |-> "none", out |-> << >>]]
WrkInit == [pc |-> "off", opt |-> 0, seen |-> 0]

\* Search(tags): the tags are checked, then the workers start
SearchCallWith(inputs) ==
  /\ srch.pc = "idle"
  /\ \E tags \in inputs :
       IF \E i \in 1..Len(tags) : ~TagMatches(tags[i])
       THEN /\ srch' = [srch EXCEPT !.pc = "ret", !.tags = tags, !.res = "ErrInvalidTag"]
            /\ UNCHANGED <<wrk, comb, cch, calc>>
       ELSE /\ srch' = [srch EXCEPT !.pc = "run", !.tags = tags, !.opts = startChars]
            /\ wrk' = [w \in Workers |-> [WrkInit EXCEPT !.pc = "pop"]]
  /\ UNCHANGED <<fs, store, status, proc, cli, lim, comb, cch, calc>>

SearchCall == SearchCallWith(SearchInputs)

\* the worker takes the next range off the queue, or leaves
WorkerPop(w) ==
  /\ wrk[w].pc = "pop"
  /\ IF srch.opts = << >>
     THEN /\ wrk' = [wrk EXCEPT ![w].pc = "done"]
          /\ UNCHANGED <<srch, comb, cch, calc>>
     ELSE /\ wrk' = [wrk EXCEPT ![w].pc = "filter", ![w].opt = Head(srch.opts)]
          /\ srch' = [srch EXCEPT !.opts = Tail(@)]
  /\ UNCHANGED <<fs, store, status, proc, cli, lim, comb, cch, calc>>

\* s.GetFilter(opt.LowerBound[0]) and the lookups; the read lock is held
\* for GetFilter alone
WorkerFilter(w) ==
  /\ wrk[w].pc = "filter"
  /\ IF ~TryRLock(store)
     THEN /\ wrk' = [wrk EXCEPT ![w].pc = "send"]
          /\ UNCHANGED <<status, comb, cch, calc>>
     ELSE IF store.db = "closed"
     THEN /\ status' = [status EXCEPT !.up = FALSE]
          /\ UNCHANGED <<wrk, comb, cch, calc>>
     ELSE LET f == GetFilterValue(fs.live.db, wrk[w].opt)
          IN /\ UNCHANGED <<status, comb, cch, calc>>
             /\ IF f.err = ErrNone /\ AnyLookup(f.filter, srch.tags)
                THEN wrk' = [wrk EXCEPT ![w].pc = "scan", ![w].seen = store.epoch]
                ELSE wrk' = [wrk EXCEPT ![w].pc = "pop"]
  /\ UNCHANGED <<fs, store, proc, cli, srch, lim, comb, cch, calc>>

\* s.db.NewIter(opt), the iteration and the merge into results, with no
\* lock held.  s.db is read without synchronisation: when Replace has
\* assigned it since the worker's GetFilter, the worker may still see the
\* handle Replace closed.  A closed pebble.DB panics.
WorkerScan(w) ==
  /\ wrk[w].pc = "scan"
  /\ \E stale \in BOOLEAN, ok \in BOOLEAN :
       IF store.db = "closed" \/ (stale /\ wrk[w].seen # store.epoch)
       THEN /\ status' = [status EXCEPT !.up = FALSE]
            /\ UNCHANGED <<wrk, srch, comb, cch, calc>>
       ELSE IF ~ok
       THEN /\ wrk' = [wrk EXCEPT ![w].pc = "send"]
            /\ UNCHANGED <<status, srch, comb, cch, calc>>
       ELSE /\ srch' = [srch EXCEPT !.results =
                 @ \o ScanRange(fs.live.db, wrk[w].opt, srch.tags, store.epoch)]
            /\ wrk' = [wrk EXCEPT ![w].pc = "pop"]
            /\ UNCHANGED <<status, comb, cch, calc>>
  /\ UNCHANGED <<fs, store, proc, cli, lim, comb, cch, calc>>

\* the select receives a worker's error: Search returns it
SearchRecvErr ==
  /\ srch.pc = "run"
  /\ \E w \in Workers :
       /\ wrk[w].pc = "send"
       /\ wrk' = [wrk EXCEPT ![w].pc = "done"]
  /\ srch' = [srch EXCEPT !.pc = "ret", !.res = "err"]
  /\ UNCHANGED <<fs, store, status, proc, cli, lim, comb, cch, calc>>

\* a select that took done while a worker still waits to send its error
SearchDoneDespiteErr ==
  /\ srch.pc = "run"
  /\ \A w \in Workers : wrk[w].pc \in {"done", "send"}
  /\ srch' = [srch EXCEPT !.pc = "ret", !.res = "nil", !.out = SortResults(srch.results)]
  /\ UNCHANGED <<fs, store, status, proc, cli, wrk, lim, comb, cch, calc>>

\* every worker has left: done is closed, Search sorts and returns
SearchDone ==
  /\ srch.pc = "run"
  /\ \A w \in Workers : wrk[w].pc = "done"
  /\ srch' = [srch EXCEPT !.pc = "ret", !.res = "nil", !.out = SortResults(srch.results)]
  /\ UNCHANGED <<fs, store, status, proc, cli, wrk, lim, comb, cch, calc>>

\* Search calls one caller makes in a row
MaxSearches == 2

\* tag lists of the /search handler's query: orders, repeats, a tag no
\* package has, and strings that are no tags
QueryInputs ==
  {<<"bin=foo">>, <<"bin=foo", "lib=libX.so.1">>, <<"lib=libX.so.1", "bin=foo">>,
   <<"bin=foo", "bin=foo", "lib=libX.so.1">>, <<"lib=libX.so">>, <<"justfoo">>,
   <<"a b=c">>}

\* the caller has its answer and calls Search again
SearchAgain ==
  /\ srch.pc = "ret"
  /\ srch.n + 1 < MaxSearches
  /\ \A w \in Workers : wrk[w].pc \in {"off", "done"}
  /\ srch' = [SrchInit EXCEPT !.n = srch.n + 1,
                              !.prev = [tags |-> srch.tags, res |-> srch.res,
                                        out |-> srch.out]]
  /\ wrk' = [w \in Workers |-> WrkInit]
  /\ UNCHANGED <<fs, store, status, proc, cli, lim, comb, cch, calc>>

----------------------------------------------------------------------------
(* The process is killed, and started again: main opens (or creates) the   *)
(* database at the live path; nothing in memory survives.                  *)

MaxRestarts == 1

Crash ==
  /\ status.up
  /\ status.restarts < MaxRestarts
  /\ status' = [status EXCEPT !.up = FALSE]
  /\ UNCHANGED <<fs, store, lim, proc, cli, srch, wrk, comb, cch, calc>>

Restart ==
  /\ ~status.up
  /\ status.restarts < MaxRestarts
  /\ status' = [up |-> TRUE, restarts |-> status.restarts + 1]
  /\ fs' = IF fs.live.exists THEN fs ELSE [fs EXCEPT !.live = Dir(EmptyDB)]
  /\ store' = [db |-> "open", readers |-> 0, wowner |-> 0, epoch |-> store.epoch + 1]
  /\ proc' = [p \in Procs |->
                [ProcInit EXCEPT !.ncalls = proc[p].ncalls, !.rold = proc[p].rold,
                                 !.rnew = proc[p].rnew, !.done = proc[p].done]]
  /\ cli' = [c \in Clients |-> [CliInit EXCEPT !.ncalls = cli[c].ncalls]]
  /\ UNCHANGED <<lim, srch, wrk, comb, cch, calc>>

----------------------------------------------------------------------------
(* The combined store: GetPkg and GetPkgNamesByPrefix fanned over the      *)
(* shards of a repository, one goroutine per shard, while the shards'      *)
(* own Replace calls take and release their locks.                         *)

MaxShards == 2
MaxLimit == 3
Shards == 1..MaxShards

\* an error value as the chain errors.Is walks: the error, then what it wraps
NilErr == << >>
ErrValue(e) == IF e = ErrNone THEN NilErr ELSE <<e>>
ErrorsIs(err, target) == \E i \in DOMAIN err : err[i] = target

\* combined.ErrNotFound = errors.New("no such package")
CombinedErrNotFound == "combined.ErrNotFound"

\* fmt.Errorf("%w: %q", ErrNotFound, name)
NotFoundError == <<"fmt.wrapError", CombinedErrNotFound>>

\* contents a shard holds, at the start and after one of its Replace calls
ShardDBs == {DBA, DBQ}

\* a shard's GetPkg: ErrBlocked under the shard's Replace, else the read
ShardGetPkg(sh, name) ==
  IF sh.blocked
  THEN [err |-> ErrBlocked, Name |-> << >>, Tags |-> << >>]
  ELSE GetPkgValue(sh.db, name)

\* a shard's GetPkgNamesByPrefix
ShardGetPkgNamesByPrefix(sh, prefix, n) ==
  IF sh.blocked
  THEN [err |-> ErrBlocked, names |-> << >>]
  ELSE GetPkgNamesByPrefixValue(sh.db, prefix, n)

NoPackage == [Name |-> << >>, Tags |-> << >>]
NoRes == [err |-> NilErr, pkg |-> NoPackage, names |-> << >>, results |-> << >>,
          latency |-> 0]
\* a goroutine: where it is, what its shard answered, and the contents the
\* shard held when it answered
GoInit == [pc |-> "idle", err |-> ErrNone, pkg |-> NoPackage, names |-> << >>,
           db |-> EmptyDB, results |-> << >>, dur |-> 0]

CombInit(dbs) ==
  [shards |-> [i \in Shards |-> [db |-> dbs[i], blocked |-> FALSE]],
   pc |-> "idle", op |-> "none", name |-> << >>, n |-> 0,
   g |-> [i \in Shards |-> GoInit],
   out |-> NoPackage, names |-> << >>, werr |-> ErrNone,
   tags |-> << >>, results |-> << >>, latency |-> 0,
   res |-> NoRes, page |-> "none"]

\* a shard that takes no part in the run
CombIdle == CombInit([i \in Shards |-> EmptyDB])

\* what combined GetPkg returns once wg.Wait has returned werr
GetPkgReturnDropsError(werr, out) ==
  IF out.Name = << >> THEN [err |-> NotFoundError, pkg |-> out]
  ELSE [err |-> NilErr, pkg |-> out]

GetPkgReturn(werr, out) ==
  IF werr # ErrNone THEN [err |-> ErrValue(werr), pkg |-> out]
  ELSE IF out.Name = << >> THEN [err |-> NotFoundError, pkg |-> out]
  ELSE [err |-> NilErr, pkg |-> out]

\* the /pkg/{repo}/{package} handler's branch on GetPkg's error
PkgHandler(err) ==
  IF ErrorsIs(err, ErrNotFound) THEN "no such package"
  ELSE IF err # NilErr THEN "return err"
  ELSE "package.html"

\* slices.Sort of names: repeats stay
InsertName(x, s) ==
  LET k == Cardinality({i \in DOMAIN s : LexLess(s[i], x) \/ s[i] = x})
  IN SubSeq(s, 1, k) \o <<x>> \o SubSeq(s, k + 1, Len(s))

RECURSIVE SortNames(_)
SortNames(s) == IF s = << >> THEN << >> ELSE InsertName(Head(s), SortNames(Tail(s)))

\* what combined GetPkgNamesByPrefix returns once wg.Wait has returned werr
NamesReturn(werr, out, n) ==
  IF werr # ErrNone THEN [err |-> ErrValue(werr), names |-> << >>]
  ELSE LET s == SortNames(out)
       IN [err |-> NilErr, names |-> IF Len(s) > n THEN SubSeq(s, 1, n) ELSE s]

CombRest == <<fs, store, status, lim, proc, cli, srch, wrk, cch, calc>>

\* a call of combined GetPkg: the loop starts one goroutine per shard
CombGetPkgCall ==
  /\ comb.pc \in {"idle", "ret"}
  /\ \E name \in {NameA, NameAB} :
       comb' = [comb EXCEPT !.pc = "run", !.op = "GetPkg", !.name = name, !.n = 0,
                            !.g = [i \in Shards |-> [GoInit EXCEPT !.pc = "go"]],
                            !.out = NoPackage, !.names = << >>, !.werr = ErrNone,
                            !.tags = << >>, !.results = << >>, !.latency = 0,
                            !.res = NoRes, !.page = "none"]
  /\ UNCHANGED CombRest

\* the goroutine of shard i in GetPkg; wg keeps the first error returned
CombGetPkgGo(i) ==
  /\ comb.pc = "run" /\ comb.op = "GetPkg" /\ comb.g[i].pc = "go"
  /\ LET r == ShardGetPkg(comb.shards[i], comb.name)
         pkg == [Name |-> r.Name, Tags |-> r.Tags]
         ret == IF r.err = ErrNone \/ ErrorsIs(ErrValue(r.err), ErrNotFound)
                THEN ErrNone ELSE r.err
     IN comb' = [comb EXCEPT !.g[i] = [GoInit EXCEPT !.pc = "done", !.err = r.err, !.pkg = pkg,
                                                       !.db = comb.shards[i].db],
                             !.out = IF r.err = ErrNone THEN pkg ELSE @,
                             !.werr = IF @ = ErrNone THEN ret ELSE @]
  /\ UNCHANGED CombRest

\* wg.Wait has returned: GetPkg returns, and the handler branches
CombGetPkgWait ==
  /\ comb.pc = "run" /\ comb.op = "GetPkg"
  /\ \A i \in Shards : comb.g[i].pc = "done"
  /\ LET r == GetPkgReturn(comb.werr, comb.out)
     IN comb' = [comb EXCEPT !.pc = "ret",
                             !.res = [NoRes EXCEPT !.err = r.err, !.pkg = r.pkg],
                             !.page = PkgHandler(r.err)]
  /\ UNCHANGED CombRest

\* a call of combined GetPkgNamesByPrefix
CombNamesCall ==
  /\ comb.pc \in {"idle", "ret"}
  /\ \E prefix \in {NameA, NameB, NameEmpty}, n \in 0..MaxLimit :
       comb' = [comb EXCEPT !.pc = "run", !.op = "GetPkgNamesByPrefix",
                            !.name = prefix, !.n = n,
                            !.g = [i \in Shards |-> [GoInit EXCEPT !.pc = "go"]],
                            !.out = NoPackage, !.names = << >>, !.werr = ErrNone,
                            !.tags = << >>, !.results = << >>, !.latency = 0,
                            !.res = NoRes, !.page = "none"]
  /\ UNCHANGED CombRest

\* the goroutine of shard i in GetPkgNamesByPrefix; a panic in it ends the
\* process
CombNamesGo(i) ==
  /\ comb.pc = "run" /\ comb.op = "GetPkgNamesByPrefix" /\ comb.g[i].pc = "go"
  /\ LET r == ShardGetPkgNamesByPrefix(comb.shards[i], comb.name, comb.n)
     IN IF r.err = Panic
        THEN comb' = [comb EXCEPT !.pc = "panic", !.g[i].pc = "panic"]
        ELSE comb' = [comb EXCEPT !.g[i] = [GoInit EXCEPT !.pc = "done", !.err = r.err,
                                                            !.names = r.names,
                                                            !.db = comb.shards[i].db],
                                  !.names = IF r.err = ErrNone THEN @ \o r.names ELSE @,
                                  !.werr = IF @ = ErrNone THEN r.err ELSE @]
  /\ UNCHANGED CombRest

\* wg.Wait has returned: GetPkgNamesByPrefix sorts, cuts and returns
CombNamesWait ==
  /\ comb.pc = "run" /\ comb.op = "GetPkgNamesByPrefix"
  /\ \A i \in Shards : comb.g[i].pc = "done"
  /\ LET r == NamesReturn(comb.werr, comb.names, comb.n)
     IN comb' = [comb EXCEPT !.pc = "ret",
                             !.res = [NoRes EXCEPT !.err = r.err, !.names = r.names]]
  /\ UNCHANGED CombRest

\* elapsed times a shard's Search reports
MaxDur == 2

\* the ranges of a shard's Search on a shard no Replace touches: a range is
\* scanned when its filter exists and possibly holds a tag of the list
RECURSIVE ScanRanges(_, _, _)
ScanRanges(chars, db, tags) ==
  IF chars = << >> THEN << >>
  ELSE LET f == GetFilterValue(db, Head(chars))
       IN (IF f.err = ErrNone /\ AnyLookup(f.filter, tags)
           THEN ScanRange(db, Head(chars), tags, 0) ELSE << >>)
            \o ScanRanges(Tail(chars), db, tags)

\* a shard's Search: the tags are checked, a worker of a shard under
\* Replace gets ErrBlocked, else the sorted hits of all ranges
ShardSearch(sh, tags) ==
  IF \E i \in 1..Len(tags) : ~TagMatches(tags[i])
  THEN [err |-> "ErrInvalidTag", results |-> << >>]
  ELSE IF sh.blocked THEN [err |-> ErrBlocked, results |-> << >>]
  ELSE [err |-> ErrNone, results |-> SortResults(ScanRanges(startChars, sh.db, tags))]

\* what combined Search returns once wg.Wait has returned werr
SearchReturnUnsorted(werr, out, latency) ==
  IF werr # ErrNone THEN [err |-> ErrValue(werr), results |-> << >>, latency |-> latency]
  ELSE [err |-> NilErr, results |-> out, latency |-> latency]

SearchReturn(werr, out, latency) ==
  IF werr # ErrNone THEN [err |-> ErrValue(werr), results |-> << >>, latency |-> latency]
  ELSE [err |-> NilErr, results |-> SortResults(out), latency |-> latency]

\* a call of combined Search
CombSearchCall ==
  /\ comb.pc \in {"idle", "ret"}
  /\ \E tags \in {<<"bin=foo">>, <<"bin=foo", "lib=libX.so.1">>, <<"justfoo">>} :
       comb' = [comb EXCEPT !.pc = "run", !.op = "Search", !.name = << >>, !.n = 0,
                            !.g = [i \in Shards |-> [GoInit EXCEPT !.pc = "go"]],
                            !.out = NoPackage, !.names = << >>, !.werr = ErrNone,
                            !.tags = tags, !.results = << >>, !.latency = 0,
                            !.res = NoRes, !.page = "none"]
  /\ UNCHANGED CombRest

\* the goroutine of shard i in Search: on success its elapsed time is
\* added and its hits are appended
CombSearchGo(i) ==
  /\ comb.pc = "run" /\ comb.op = "Search" /\ comb.g[i].pc = "go"
  /\ \E dur \in 1..MaxDur :
       LET r == ShardSearch(comb.shards[i], comb.tags)
       IN comb' = [comb EXCEPT
                     !.g[i] = [GoInit EXCEPT !.pc = "done", !.err = r.err,
                                             !.results = r.results,
                                             !.dur = IF r.err = ErrNone THEN dur ELSE 0,
                                             !.db = comb.shards[i].db],
                     !.latency = IF r.err = ErrNone THEN @ + dur ELSE @,
                     !.results = IF r.err = ErrNone THEN @ \o r.results ELSE @,
                     !.werr = IF @ = ErrNone THEN r.err ELSE @]
  /\ UNCHANGED CombRest

\* wg.Wait has returned: Search sorts and returns
CombSearchWait ==
  /\ comb.pc = "run" /\ comb.op = "Search"
  /\ \A i \in Shards : comb.g[i].pc = "done"
  /\ LET r == SearchReturn(comb.werr, comb.results, comb.latency)
     IN comb' = [comb EXCEPT !.pc = "ret",
                             !.res = [NoRes EXCEPT !.err = r.err, !.results = r.results,
                                                   !.latency = r.latency]]
  /\ UNCHANGED CombRest

\* the Replace of shard i takes the shard's lock
ShardLock(i) ==
  /\ comb.pc # "panic"
  /\ ~comb.shards[i].blocked
  /\ comb' = [comb EXCEPT !.shards[i].blocked = TRUE]
  /\ UNCHANGED CombRest

\* the Replace of shard i has installed new contents and releases the lock
ShardUnlock(i) ==
  /\ comb.pc # "panic"
  /\ comb.shards[i].blocked
  /\ \E d \in ShardDBs : comb' = [comb EXCEPT !.shards[i] = [db |-> d, blocked |-> FALSE]]
  /\ UNCHANGED CombRest

----------------------------------------------------------------------------
(* The cached store: Search answered from a cache of earlier answers, over *)
(* an underlying store whose state at each call is an input.               *)

\* strings.Join(tags, "\x1F"), as the parts between the 0x1F bytes of the
\* joined string: two joined strings are equal when these are
RECURSIVE cacheKey(_)
cacheKey(tags) ==
  IF tags = << >> THEN << >> ELSE TagPieces(Head(tags)) \o cacheKey(Tail(tags))

\* tag lists Search is called with through the cache
CachedInputs ==
  {<<"bin=foo">>, <<"bin=foo", "lib=libX.so.1">>, <<"lib=libX.so.1", "bin=foo">>,
   <<"bin=foo<1F>lib=libX.so.1">>, <<"lib=libX.so">>, <<"justfoo">>}

\* states the underlying store is found in
UnderStates == {[db |-> d, blocked |-> b] : d \in ShardDBs, b \in BOOLEAN}

CchInit ==
  [cache |-> EmptyMap, seq |-> 0, op |-> "none", tags |-> << >>, called |-> FALSE,
   under |-> [err |-> ErrNone, results |-> << >>, latency |-> 0],
   res |-> [err |-> ErrNone, results |-> << >>, latency |-> 0]]

\* cache.Set(cacheKey, cacheRecord{res, latency})
CacheSet(cache, key, results, latency) ==
  [k \in DOMAIN cache \cup {key} |->
     IF k = key THEN [results |-> results, latency |-> latency] ELSE cache[k]]

\* the end of Search on a miss: what the cache holds afterwards
CacheStoreAlways(cache, key, r) ==
  IF r.err # ErrNone THEN cache ELSE CacheSet(cache, key, r.results, r.latency)

CacheStore(cache, key, r) ==
  IF r.err # ErrNone THEN cache
  ELSE IF Len(r.results) # 0 THEN CacheSet(cache, key, r.results, r.latency)
  ELSE cache

\* cached Search(tags)
CachedSearch ==
  /\ \E tags \in CachedInputs, sh \in UnderStates, dur \in 1..MaxDur :
       LET key == cacheKey(tags)
       IN IF key \in DOMAIN cch.cache
          THEN cch' = [cch EXCEPT !.seq = 1 - @, !.op = "Search", !.tags = tags,
                                  !.called = FALSE, !.under = CchInit.under,
                                  !.res = [err |-> ErrNone,
                                           results |-> cch.cache[key].results,
                                           latency |-> cch.cache[key].latency]]
          ELSE LET s == ShardSearch(sh, tags)
                   r == [err |-> s.err, results |-> s.results,
                         latency |-> IF s.err = ErrNone THEN dur ELSE 0]
               IN cch' = [cch EXCEPT !.seq = 1 - @, !.op = "Search", !.tags = tags,
                                     !.called = TRUE, !.under = r,
                                     !.res = IF r.err # ErrNone
                                             THEN [err |-> r.err, results |-> << >>,
                                                   latency |-> 0]
                                             ELSE r,
                                     !.cache = CacheStore(@, key, r)]
  /\ UNCHANGED <<fs, store, status, lim, proc, cli, srch, wrk, comb, calc>>

\* GetPkg and GetPkgNamesByPrefix of the cached store: the methods of the
\* embedded store.ReadOnly
CachedPassThrough ==
  /\ \E op \in {"GetPkg", "GetPkgNamesByPrefix"}, sh \in UnderStates :
       LET g == ShardGetPkg(sh, NameA)
           n == ShardGetPkgNamesByPrefix(sh, NameA, MaxLimit)
           r == IF op = "GetPkg"
                THEN [err |-> g.err, results |-> <<[Name |-> g.Name, Tags |-> g.Tags]>>,
                      latency |-> 0]
                ELSE [err |-> n.err, results |-> n.names, latency |-> 0]
       IN cch' = [cch EXCEPT !.seq = 1 - @, !.op = op, !.tags = << >>,
                             !.called = TRUE, !.under = r, !.res = r]
  /\ UNCHANGED <<fs, store, status, lim, proc, cli, srch, wrk, comb, calc>>

\* an entry of the cache expires
CacheExpire ==
  /\ \E key \in DOMAIN cch.cache :
       cch' = [cch EXCEPT !.cache = [k \in DOMAIN @ \ {key} |-> @[k]]]
  /\ UNCHANGED <<fs, store, status, lim, proc, cli, srch, wrk, comb, calc>>

----------------------------------------------------------------------------
(* The functions of the index and tags packages, called on their own.      *)

CalcInit == [op |-> "none", arg |-> << >>, out |-> << >>]

\* Name() of the importers the package defines: APT, DNF, Pacman, Zypper
ImporterNames == {"apt", "dnf", "pacman", "zypper"}

\* var importers, by Name()
importers == <<"apt", "dnf", "pacman">>

\* GetImporter(name): the first importer of the list with that name
GetImporter(name) ==
  IF \E i \in DOMAIN importers : importers[i] = name
  THEN [err |-> ErrNone,
        importer |-> importers[CHOOSE i \in DOMAIN importers :
                                 /\ importers[i] = name
                                 /\ \A j \in 1..(i - 1) : importers[j] # name]]
  ELSE [err |-> "no such importer", importer |-> "nil"]

\* the caller has its answer
CalcReturn ==
  /\ calc.op # "none"
  /\ calc' = CalcInit
  /\ UNCHANGED <<fs, store, status, lim, proc, cli, srch, wrk, comb, cch>>

\* the refresh task asks for the importer of a repository's type
CallGetImporter ==
  /\ calc.op = "none"
  /\ \E name \in ImporterNames \cup {"apk", ""} :
       calc' = [op |-> "GetImporter", arg |-> name, out |-> GetImporter(name)]
  /\ UNCHANGED <<fs, store, status, lim, proc, cli, srch, wrk, comb, cch>>

----------------------------------------------------------------------------
(* Package tags: Generate(filePath).  Strings are sequences of bytes.      *)

\* strings.Index(s, sub): the first position sub occurs at, 0 when nowhere
\* (Go counts from 0 and answers -1)
Index(s, sub) ==
  LET at == {i \in 1..(Len(s) - Len(sub) + 1) : SubSeq(s, i, i + Len(sub) - 1) = sub}
  IN IF at = {} THEN 0 ELSE CHOOSE i \in at : \A j \in at : i <= j

\* strings.LastIndexByte(s, c)
LastIndexByte(s, c) ==
  LET at == {i \in DOMAIN s : s[i] = c}
  IN IF at = {} THEN 0 ELSE CHOOSE i \in at : \A j \in at : j <= i

\* strings.Split(s, sep) for a separator of one byte
RECURSIVE Split(_, _)
Split(s, c) ==
  LET i == Index(s, <<c>>)
  IN IF i = 0 THEN <<s>>
     ELSE <<SubSeq(s, 1, i - 1)>> \o Split(SubSeq(s, i + 1, Len(s)), c)

HasPrefix(s, p) == Len(s) >= Len(p) /\ SubSeq(s, 1, Len(p)) = p
HasSuffix(s, p) == Len(s) >= Len(p) /\ SubSeq(s, Len(s) - Len(p) + 1, Len(s)) = p
TrimPrefix(s, p) == IF HasPrefix(s, p) THEN SubSeq(s, Len(p) + 1, Len(s)) ELSE s
TrimSuffix(s, p) == IF HasSuffix(s, p) THEN SubSeq(s, 1, Len(s) - Len(p)) ELSE s

\* path.Ext(name): from the last dot of the last element of the path
Ext(name) ==
  LET dot == LastIndexByte(name, 46)
  IN IF dot = 0 \/ dot < LastIndexByte(name, 47) THEN << >>
     ELSE SubSeq(name, dot, Len(name))

isNum(s) == \A i \in DOMAIN s : ~(s[i] < 48 \/ s[i] > 57)

soversionIsValid(s) ==
  IF s = << >> THEN TRUE
  ELSE LET elems == Split(s, 46) IN \A i \in DOMAIN elems : isNum(elems[i])

manualName(fileName) ==
  LET f == TrimSuffix(fileName, <<46, 103, 122>>)
      ext == Ext(f)
  IN IF Len(ext) = 0 \/ ~isNum(SubSeq(ext, 2, Len(ext))) THEN << >> ELSE f

\* pythonName: the path element after /dist-packages/ or /site-packages/
\* that another slash follows
PyAfter(filePath, marker) ==
  LET start == Index(filePath, marker)
      rest == SubSeq(filePath, start + 15, Len(filePath))
      end == Index(rest, <<47>>)
  IN IF start = 0 \/ end = 0 THEN [ok |-> FALSE, name |-> << >>]
     ELSE [ok |-> TRUE, name |-> SubSeq(rest, 1, end - 1)]

pythonName(filePath) ==
  LET d == PyAfter(filePath, <<47, 100, 105, 115, 116, 45, 112, 97, 99, 107, 97, 103, 101, 115,
      47>>)
      s == PyAfter(filePath, <<47, 115, 105, 116, 101, 45, 112, 97, 99, 107, 97, 103, 101, 115,
          47>>)
  IN IF d.ok THEN d.name ELSE IF s.ok THEN s.name ELSE << >>

\* kind=value
Tag(kind, value) == kind \o <<61>> \o value

\* the test of the lib case: lastChar >= '0' || lastChar <= '9'
EndsInDigit(lastChar) == lastChar >= 48 \/ lastChar <= 57

\* the lib, lib32 and lib64 case
LibTags(name) ==
  LET i == Index(name, <<46, 115, 111>>)
      libName == SubSeq(name, 1, i - 1)
      soversion == SubSeq(name, i + 3, Len(name))
  IN IF i # 0 /\ soversionIsValid(soversion)
     THEN <<Tag(<<108, 105, 98>>, name)>>
            \o (IF EndsInDigit(name[Len(name)])
                THEN <<Tag(<<108, 105, 98>>, libName \o <<46, 115, 111>>),
                       Tag(<<108, 105, 98>>, TrimPrefix(libName, <<108, 105, 98>>))>>
                ELSE << >>)
     ELSE IF Ext(name) = <<46, 97>>
     THEN <<Tag(<<108, 105, 98>>, name), Tag(<<108, 105, 98>>, TrimSuffix(name, <<46, 97>>))>>
     ELSE << >>

\* the switch on one element of the directory: the tags it appends
Bucket(elem, name, filePath) ==
  IF elem \in {<<98, 105, 110>>, <<115, 98, 105, 110>>} THEN <<Tag(<<98, 105, 110>>, name)>>
  ELSE IF elem \in {<<105, 99, 111, 110, 115>>, <<112, 105, 120, 109, 97, 112, 115>>}
  THEN IF Ext(name) \in {<<46, 115, 118, 103>>, <<46, 112, 110, 103>>, <<46, 106, 112, 103>>,
      <<46, 106, 112, 101, 103>>} THEN <<Tag(<<105, 99, 111, 110>>, name)>> ELSE << >>
  ELSE IF elem = <<109, 97, 110>>
  THEN IF manualName(name) # << >> THEN <<Tag(<<109, 97, 110>>, manualName(name))>> ELSE << >>
  ELSE IF elem \in {<<100, 105, 115, 116, 45, 112, 97, 99, 107, 97, 103, 101, 115>>, <<115,
      105, 116, 101, 45, 112, 97, 99, 107, 97, 103, 101, 115>>}
  THEN IF pythonName(filePath) # << >> THEN <<Tag(<<112, 121>>, pythonName(filePath))>> ELSE << >>
  ELSE IF elem \in {<<112, 107, 103, 99, 111, 110, 102, 105, 103>>, <<112, 107, 103, 45, 99,
      111, 110, 102, 105, 103>>}
  THEN IF Ext(name) = <<46, 112, 99>> THEN <<Tag(<<112, 107, 103, 99, 102, 103>>,
      TrimSuffix(name, <<46, 112, 99>>))>> ELSE << >>
  ELSE IF elem = <<97, 112, 112, 108, 105, 99, 97, 116, 105, 111, 110, 115>>
  THEN IF Ext(name) = <<46, 100, 101, 115, 107, 116, 111, 112>> THEN <<Tag(<<100, 101, 115,
      107, 116, 111, 112>>, TrimSuffix(name, <<46, 100, 101, 115, 107, 116, 111, 112>>))>>
       ELSE << >>
  ELSE IF elem = <<100, 98, 117, 115, 45, 49>>
  THEN IF Ext(name) = <<46, 115, 101, 114, 118, 105, 99, 101>> THEN <<Tag(<<100, 98, 117,
      115>>, TrimSuffix(name, <<46, 115, 101, 114, 118, 105, 99, 101>>))>>
       ELSE << >>
  ELSE IF elem = <<115, 121, 115, 116, 101, 109, 100>>
  THEN IF Ext(name) \in {<<46, 115, 101, 114, 118, 105, 99, 101>>, <<46, 116, 97, 114, 103,
      101, 116>>, <<46, 115, 111, 99, 107, 101, 116>>, <<46, 116, 105, 109, 101,
          114>>} THEN <<Tag(<<115, 121, 115, 116, 101, 109, 100>>, name)>> ELSE << >>
  ELSE IF elem = <<105, 110, 99, 108, 117, 100, 101>>
  THEN IF Ext(name) \in {<<46, 104>>, <<46, 104, 104>>, <<46, 104, 112, 112>>, <<46, 104, 120,
      120>>, <<104, 43, 43>>}
       THEN LET i == Index(filePath, <<105, 110, 99, 108, 117, 100, 101, 47>>)
            IN <<Tag(<<104, 100, 114>>, IF i = 0 THEN name
                             ELSE SubSeq(filePath, i + 8, Len(filePath)))>>
       ELSE << >>
  ELSE IF elem \in {<<108, 105, 98>>, <<108, 105, 98, 51, 50>>, <<108, 105, 98, 54,
      52>>} THEN LibTags(name)
  ELSE << >>

\* the loop over the elements: it ends at the first one that appended
RECURSIVE WalkAll(_, _, _)
WalkAll(pathElems, name, filePath) ==
  IF pathElems = << >> THEN << >>
  ELSE Bucket(Head(pathElems), name, filePath) \o WalkAll(Tail(pathElems), name, filePath)

RECURSIVE Walk(_, _, _)
Walk(pathElems, name, filePath) ==
  IF pathElems = << >> THEN << >>
  ELSE LET t == Bucket(Head(pathElems), name, filePath)
       IN IF t # << >> THEN t ELSE Walk(Tail(pathElems), name, filePath)

\* Generate(filePath); slicing filePath[:lastSlash] panics without a slash
Generate(filePath) ==
  LET lastSlash == LastIndexByte(filePath, 47)
      name == SubSeq(filePath, lastSlash + 1, Len(filePath))
      dir == SubSeq(filePath, 1, lastSlash - 1)
      t == Walk(Split(dir, 47), name, filePath)
  IN IF lastSlash = 0 THEN [err |-> Panic, tags |-> << >>]
     ELSE [err |-> ErrNone,
           tags |-> IF t = << >> THEN <<Tag(<<102, 105, 108, 101>>, filePath)>> ELSE t]

\* directories of at most MaxDirs elements, and the directories of the
\* other buckets
MaxDirs == 2

\* "", usr, bin, lib, include, x
DirElems == {<< >>, <<117, 115, 114>>, <<98, 105, 110>>, <<108, 105, 98>>, <<105, 110, 99, 108,
    117, 100, 101>>, <<120>>}

\* icons, man, site-packages, pkgconfig, applications, dbus-1, systemd
OtherBuckets == {<<105, 99, 111, 110, 115>>, <<109, 97, 110>>, <<115, 105, 116, 101, 45, 112,
    97, 99, 107, 97, 103, 101, 115>>, <<112, 107, 103, 99, 111, 110, 102, 105, 103>>, <<97,
        112, 112, 108, 105, 99, 97, 116, 105, 111, 110, 115>>, <<100, 98, 117, 115, 45, 49>>,
            <<115, 121, 115, 116, 101, 109, 100>>}

RECURSIVE Join(_)
Join(elems) ==
  IF Len(elems) = 1 THEN Head(elems) ELSE Head(elems) \o <<47>> \o Join(Tail(elems))

GenDirs ==
  {Join(d) : d \in UNION {[1..n -> DirElems] : n \in 1..MaxDirs}}
    \cup {Join(<<b>>) : b \in OtherBuckets}
    \cup {Join(<<<<117, 115, 114>>, b>>) : b \in OtherBuckets}
    \cup {Join(<<<<117, 115, 114>>, <<115, 105, 116, 101, 45, 112, 97, 99, 107, 97, 103, 101,
        115>>, <<120>>>>), Join(<<<<120>>, <<109, 97, 110>>, <<108, 105, 98>>>>)}

\* foo, a.png, foo.1, foo.1.gz, x.pc, x.desktop, x.service, x.h,
\* libfoo.so, libfoo.so.1, libfoo.so.1a, libz.a, and the empty name
GenNames == {<< >>, <<102, 111, 111>>, <<97, 46, 112, 110, 103>>, <<102, 111, 111, 46, 49>>,
    <<102, 111, 111, 46, 49, 46, 103, 122>>, <<120, 46, 112, 99>>, <<120, 46, 100, 101, 115,
        107, 116, 111, 112>>, <<120, 46, 115, 101, 114, 118, 105, 99, 101>>, <<120, 46, 104>>,
            <<108, 105, 98, 102, 111, 111, 46, 115, 111>>, <<108, 105, 98, 102, 111, 111, 46,
                115, 111, 46, 49>>, <<108, 105, 98, 102, 111, 111, 46, 115, 111, 46, 49, 97>>,
                    <<108, 105, 98, 122, 46, 97>>}

\* Generate is called on the path of a file of a package
CallGenerate ==
  /\ calc.op = "none"
  /\ \E dir \in GenDirs, name \in GenNames, slash \in BOOLEAN :
       LET filePath == IF slash THEN dir \o <<47>> \o name ELSE name
       IN calc' = [op |-> "Generate", arg |-> filePath, out |-> Generate(filePath)]
  /\ UNCHANGED <<fs, store, status, lim, proc, cli, srch, wrk, comb, cch>>

\* calls of WriteBatch one after the other on a store that starts empty
MaxBatches == 2

\* the records of a batch, by name
BatchRecords ==
  {Rec(NameA, <<"bin=foo">>), Rec(NameA, <<"lib=libX.so.1", "lib=libX.so">>),
   Rec(NameA, <<"bin=foo", "bin=foo">>), Rec(NameA, <<"bin=foo<1F>lib=libX.so.1">>),
   Rec(NameB, <<"lib=libX.so.1">>), Rec(NameB, << >>), Rec(NameEmpty, <<"bin=foo">>)}

\* the batches: maps from a name to a record of that name
Batches ==
  {b \in UNION {[S -> BatchRecords] : S \in (SUBSET {NameA, NameB, NameEmpty}) \ {{}}} :
     \A n \in DOMAIN b : b[n].Name = n}

\* WriteBatch(batch, filters) on the store the calls before have written;
\* sent is every record handed over so far
CallWriteBatch ==
  /\ calc.op \in {"none", "WriteBatch"}
  /\ LET before == IF calc.op = "none"
                   THEN [db |-> EmptyDB, filters |-> EmptyMap, sent |-> {}, n |-> 0]
                   ELSE calc.out
     IN /\ before.n < MaxBatches
        /\ \E batch \in Batches :
           \E keys \in KeyOrders(DOMAIN batch) :
             LET w == WriteBatchIn(keys, before.db, batch, before.filters)
             IN calc' = [op |-> "WriteBatch", arg |-> batch,
                         out |-> [db |-> w.db, filters |-> w.filters,
                                  sent |-> before.sent \cup {batch[k] : k \in DOMAIN batch},
                                  n |-> before.n + 1]]
  /\ UNCHANGED <<fs, store, status, lim, proc, cli, srch, wrk, comb, cch>>

\* a shard whose one package has the name of the single byte 0xFF
DBF == BuildDB([n \in {<<255>>} |-> Rec(<<255>>, <<"bin=foo">>)], NoMeta)

\* GetPkgNamesByPrefix(prefix, n) on an unblocked store
CallGetPkgNamesByPrefix ==
  /\ calc.op = "none"
  /\ \E db \in {DBA, DBQ, DBF}, prefix \in {NameA, NameB, <<255>>}, n \in 0..MaxLimit :
       calc' = [op |-> "GetPkgNamesByPrefix",
                arg |-> [db |-> db, prefix |-> prefix, n |-> n],
                out |-> GetPkgNamesByPrefixValue(db, prefix, n)]
  /\ UNCHANGED <<fs, store, status, lim, proc, cli, srch, wrk, comb, cch>>

----------------------------------------------------------------------------
(* The store under its callers: every operation of the Store's interface,  *)
(* called while Replace calls run.                                         *)

Init ==
  /\ \E d \in InitialDBs : fs = [live |-> Dir(d), old |-> NoDir, tmp |-> << >>]
  /\ store = [db |-> "open", readers |-> 0, wowner |-> 0, epoch |-> 0]
  /\ status = [up |-> TRUE, restarts |-> 0]
  /\ lim = [pulls |-> MaxPulls, recs |-> 0, calls |-> MaxCalls]
  /\ proc = [p \in Procs |-> ProcInit]
  /\ cli = [c \in Clients |-> CliInit]
  /\ srch = SrchInit
  /\ wrk = [w \in Workers |-> WrkInit]
  /\ comb = CombIdle
  /\ cch = CchInit
  /\ calc = CalcInit

Next ==
  /\ status.up
  /\ \/ \E p \in Procs : CallReplace(p)
     \/ \E p \in Procs : Replace(p)
     \/ \E c \in Clients : ClientBegin(c, ReadOps \cup WriteOps)
     \/ \E c \in Clients : ClientBody(c)

Spec == Init /\ [][Next]_vars

\* a Search of the live store while Replace calls run
SearchNext ==
  /\ status.up
  /\ \/ \E p \in Procs : CallReplace(p)
     \/ \E p \in Procs : Replace(p)
     \/ SearchCall
     \/ \E w \in Workers : WorkerPop(w)
     \/ \E w \in Workers : WorkerFilter(w)
     \/ \E w \in Workers : WorkerScan(w)
     \/ SearchRecvErr
     \/ SearchDone

SearchSpec == Init /\ [][SearchNext]_vars

\* Search calls on a shard that no Replace touches
QueryInit ==
  /\ \E d \in {DBQ, DBB} : fs = [live |-> Dir(d), old |-> NoDir, tmp |-> << >>]
  /\ store = [db |-> "open", readers |-> 0, wowner |-> 0, epoch |-> 0]
  /\ status = [up |-> TRUE, restarts |-> 0]
  /\ lim = [pulls |-> 0, recs |-> 0, calls |-> 0]
  /\ proc = [p \in Procs |-> ProcInit]
  /\ cli = [c \in Clients |-> CliInit]
  /\ srch = SrchInit
  /\ wrk = [w \in Workers |-> WrkInit]
  /\ comb = CombIdle
  /\ cch = CchInit
  /\ calc = CalcInit

QueryNext ==
  /\ status.up
  /\ \/ SearchCallWith(QueryInputs)
     \/ \E w \in Workers : WorkerPop(w)
     \/ \E w \in Workers : WorkerFilter(w)
     \/ \E w \in Workers : WorkerScan(w)
     \/ SearchRecvErr
     \/ SearchDone
     \/ SearchAgain

QuerySpec == QueryInit /\ [][QueryNext]_vars

\* Replace calls beside readers, with the process killed and restarted
ReplaceNext ==
  \/ /\ status.up
     /\ \/ \E p \in Procs : CallReplace(p)
        \/ \E p \in Procs : Replace(p)
        \/ \E c \in Clients : ClientBegin(c, ReadOps)
        \/ \E c \in Clients : ClientBody(c)
  \/ Crash
  \/ Restart

ReplaceSpec == Init /\ [][ReplaceNext]_vars

\* the refresh task beside a reader of the live store
PullInit ==
  /\ \E d \in InitialDBs : fs = [live |-> Dir(d), old |-> NoDir, tmp |-> << >>]
  /\ store = [db |-> "open", readers |-> 0, wowner |-> 0, epoch |-> 0]
  /\ status = [up |-> TRUE, restarts |-> 0]
  /\ lim \in {[pulls |-> 1, recs |-> MaxRecs, calls |-> 1],
              [pulls |-> MaxPulls, recs |-> 1, calls |-> 0]}
  /\ proc = [p \in Procs |->
               [ProcInit EXCEPT !.done =
                  IF fs.live.db.meta.present
                  THEN [n |-> 1, ETag |-> fs.live.db.meta.ETag,
                        LastModified |-> fs.live.db.meta.LastModified]
                  ELSE @]]
  /\ cli = [c \in Clients |-> CliInit]
  /\ srch = SrchInit
  /\ wrk = [w \in Workers |-> WrkInit]
  /\ comb = CombIdle
  /\ cch = CchInit
  /\ calc = CalcInit

PullNext ==
  /\ status.up
  /\ \/ \E p \in Procs : CallPull(p)
     \/ \E p \in Procs : Pull(p)
     \/ \E p \in Procs : Replace(p)
     \/ \E c \in Clients : ClientBegin(c, {Op("GetPkg", NameA, 0), Op("GetPkg", NameB, 0)})
     \/ \E c \in Clients : ClientBody(c)

PullSpec == PullInit /\ [][PullNext]_vars

\* calls through the combined store of a repository of MaxShards shards
CombinedInit ==
  /\ fs = [live |-> Dir(EmptyDB), old |-> NoDir, tmp |-> << >>]
  /\ store = [db |-> "open", readers |-> 0, wowner |-> 0, epoch |-> 0]
  /\ status = [up |-> TRUE, restarts |-> 0]
  /\ lim = [pulls |-> 0, recs |-> 0, calls |-> 0]
  /\ proc = [p \in Procs |-> ProcInit]
  /\ cli = [c \in Clients |-> CliInit]
  /\ srch = SrchInit
  /\ wrk = [w \in Workers |-> WrkInit]
  /\ \E dbs \in [Shards -> ShardDBs] : comb = CombInit(dbs)
  /\ cch = CchInit
  /\ calc = CalcInit

CombinedNext ==
  \/ CombGetPkgCall
  \/ \E i \in Shards : CombGetPkgGo(i)
  \/ CombGetPkgWait
  \/ CombNamesCall
  \/ \E i \in Shards : CombNamesGo(i)
  \/ CombNamesWait
  \/ CombSearchCall
  \/ \E i \in Shards : CombSearchGo(i)
  \/ CombSearchWait
  \/ \E i \in Shards : ShardLock(i)
  \/ \E i \in Shards : ShardUnlock(i)

CombinedSpec == CombinedInit /\ [][CombinedNext]_vars

\* a caller keeps what a GetPkg returned and calls again, the shards as they are
KeepGetPkg ==
  /\ comb.pc = "ret" /\ comb.op = "GetPkg"
  /\ calc' = [op |-> "GetPkg", arg |-> comb.name, out |-> comb.res]
  /\ calc' # calc
  /\ UNCHANGED <<fs, store, status, lim, proc, cli, srch, wrk, comb, cch>>

RepeatNext ==
  \/ CombGetPkgCall
  \/ \E i \in Shards : CombGetPkgGo(i)
  \/ CombGetPkgWait
  \/ KeepGetPkg

RepeatSpec == CombinedInit /\ [][RepeatNext]_vars

\* calls through the cached store
CachedInit ==
  /\ fs = [live |-> Dir(EmptyDB), old |-> NoDir, tmp |-> << >>]
  /\ store = [db |-> "open", readers |-> 0, wowner |-> 0, epoch |-> 0]
  /\ status = [up |-> TRUE, restarts |-> 0]
  /\ lim = [pulls |-> 0, recs |-> 0, calls |-> 0]
  /\ proc = [p \in Procs |-> ProcInit]
  /\ cli = [c \in Clients |-> CliInit]
  /\ srch = SrchInit
  /\ wrk = [w \in Workers |-> WrkInit]
  /\ comb = CombIdle
  /\ cch = CchInit
  /\ calc = CalcInit

CachedNext ==
  \/ CachedSearch
  \/ CachedPassThrough
  \/ CacheExpire

CachedSpec == CachedInit /\ [][CachedNext]_vars

----------------------------------------------------------------------------
(* The reader of RPM file lists (DNF.ReadPkgData, which Zypper calls): the *)
(* lines of the decompressed index, as bytes, and what is sent on out.     *)

\* strings.TrimSpace, for the white space of ASCII
IsSpace(c) == c \in {9, 10, 11, 12, 13, 32}

RECURSIVE TrimLeft(_)
TrimLeft(s) == IF s # << >> /\ IsSpace(Head(s)) THEN TrimLeft(Tail(s)) ELSE s

RECURSIVE TrimRight(_)
TrimRight(s) ==
  IF s # << >> /\ IsSpace(s[Len(s)]) THEN TrimRight(SubSeq(s, 1, Len(s) - 1)) ELSE s

TrimSpace(s) == TrimRight(TrimLeft(s))

\* strings.LastIndex(s, sub): the last position sub occurs at, 0 when nowhere
LastIndex(s, sub) ==
  LET at == {i \in 1..(Len(s) - Len(sub) + 1) : SubSeq(s, i, i + Len(sub) - 1) = sub}
  IN IF at = {} THEN 0 ELSE CHOOSE i \in at : \A j \in at : j <= i

\* the texts the reader looks for

\* <file
StrFile == <<60, 102, 105, 108, 101>>

\* type="dir"
StrTypeDir == <<116, 121, 112, 101, 61, 34, 100, 105, 114, 34>>

\* .build-id
StrBuildId == <<46, 98, 117, 105, 108, 100, 45, 105, 100>>

\* <package
StrPackage == <<60, 112, 97, 99, 107, 97, 103, 101>>

\* name="
StrNameAttr == <<110, 97, 109, 101, 61, 34>>


\* lines of an index, each with the newline ReadString leaves on it

\*   <package pkgid="1" name="a" arch="x">
LinePackageA == <<32, 32, 60, 112, 97, 99, 107, 97, 103, 101, 32, 112, 107, 103, 105, 100, 61,
    34, 49, 34, 32, 110, 97, 109, 101, 61, 34, 97, 34, 32, 97, 114, 99, 104, 61, 34, 120, 34,
    62, 10>>

\* <package pkgid="2" name="b" arch="x">
LinePackageB == <<60, 112, 97, 99, 107, 97, 103, 101, 32, 112, 107, 103, 105, 100, 61, 34, 50,
    34, 32, 110, 97, 109, 101, 61, 34, 98, 34, 32, 97, 114, 99, 104, 61, 34, 120, 34, 62, 10>>

\*     <file>/usr/bin/foo</file>
LineFile == <<32, 32, 32, 32, 60, 102, 105, 108, 101, 62, 47, 117, 115, 114, 47, 98, 105, 110,
    47, 102, 111, 111, 60, 47, 102, 105, 108, 101, 62, 10>>

\*     <file type="dir">/usr/bin</file>
LineDir == <<32, 32, 32, 32, 60, 102, 105, 108, 101, 32, 116, 121, 112, 101, 61, 34, 100, 105,
    114, 34, 62, 47, 117, 115, 114, 47, 98, 105, 110, 60, 47, 102, 105, 108, 101, 62, 10>>

\*     <file>/usr/lib/.build-id/ab</file>
LineBuildId == <<32, 32, 32, 32, 60, 102, 105, 108, 101, 62, 47, 117, 115, 114, 47, 108, 105,
    98, 47, 46, 98, 117, 105, 108, 100, 45, 105, 100, 47, 97, 98, 60, 47, 102, 105, 108, 101,
    62, 10>>

\*     <version epoch="0" ver="1" rel="1"/>
LineVersion == <<32, 32, 32, 32, 60, 118, 101, 114, 115, 105, 111, 110, 32, 101, 112, 111, 99,
    104, 61, 34, 48, 34, 32, 118, 101, 114, 61, 34, 49, 34, 32, 114, 101, 108, 61, 34, 49, 34,
    47, 62, 10>>

\*     <file>/usr/bin/foo
LineFileOpen == <<32, 32, 32, 32, 60, 102, 105, 108, 101, 62, 47, 117, 115, 114, 47, 98, 105,
    110, 47, 102, 111, 111, 10>>


IndexLines ==
  {LinePackageA, LinePackageB, LineFile, LineDir, LineBuildId, LineVersion, LineFileOpen}

\* lines read from one index, at most
MaxLines == 3

NoRecord == [Name |-> << >>, Tags |-> << >>, Error |-> FALSE]

\* one turn of the loop on a line that was read: the record sent, if any,
\* and currentPkg after it.  Indexing or slicing out of range panics.
RpmLine(raw, currentPkg) ==
  LET line == TrimSpace(raw)
      skip == [kind |-> "skip", pkg |-> currentPkg, rec |-> NoRecord]
      panic == [kind |-> "panic", pkg |-> currentPkg, rec |-> NoRecord]
  IN IF HasPrefix(line, StrFile)
     THEN IF HasPrefix(SubSeq(line, 6, Len(line)), StrTypeDir) THEN skip
          ELSE IF Len(line) < 6 THEN panic
          ELSE IF line[6] = 108 THEN skip
          ELSE LET start == Index(line, <<62>>)
                   end == LastIndexByte(line, 60) - 1
                   fpath == SubSeq(line, start + 1, end)
                   g == Generate(fpath)
               IN IF start > end THEN panic
                  ELSE IF Index(fpath, StrBuildId) # 0 THEN skip
                  ELSE IF g.err = Panic THEN panic
                  ELSE [kind |-> "record", pkg |-> currentPkg,
                        rec |-> [Name |-> currentPkg, Tags |-> g.tags, Error |-> FALSE]]
     ELSE IF HasPrefix(line, StrPackage)
     THEN LET start == LastIndex(line, StrNameAttr) + 5
              rest == SubSeq(line, start + 1, Len(line))
              quote == Index(rest, <<34>>)
          IN IF quote = 0 THEN panic
             ELSE [kind |-> "skip", pkg |-> SubSeq(rest, 1, quote - 1), rec |-> NoRecord]
     ELSE skip

\* the loop over the lines, then what br.ReadString returns after the last
\* of them: io.EOF (close(out), break) or another error (an error record)
RECURSIVE RpmLoop(_, _, _, _)
RpmLoop(lines, ending, currentPkg, sent) ==
  IF lines = << >>
  THEN IF ending = "eof"
       THEN [sent |-> sent, closes |-> 1, end |-> "return"]
       ELSE [sent |-> Append(sent, [NoRecord EXCEPT !.Error = TRUE]), closes |-> 0,
             end |-> "return"]
  ELSE LET r == RpmLine(Head(lines), currentPkg)
       IN IF r.kind = "panic" THEN [sent |-> sent, closes |-> 0, end |-> "panic"]
          ELSE RpmLoop(Tail(lines), ending, r.pkg,
                       IF r.kind = "record" THEN Append(sent, r.rec) ELSE sent)

\* ReadPkgData(r, out): archives.Identify, the decompressor and OpenReader
\* may each fail with an error record; then the loop
ReadPkgData(opened, lines, ending) ==
  IF ~opened
  THEN [sent |-> <<[NoRecord EXCEPT !.Error = TRUE]>>, closes |-> 0, end |-> "return"]
  ELSE RpmLoop(lines, ending, << >>, << >>)

\* the sequences of at most MaxLines lines
LineSeqs == UNION {[1..n -> IndexLines] : n \in 0..MaxLines}

\* the importer task of a Pull reads an index to its end
CallReadPkgData ==
  /\ calc.op = "none"
  /\ \E opened \in BOOLEAN, lines \in LineSeqs, ending \in {"eof", "err"} :
       /\ (~opened => (lines = << >> /\ ending = "err"))
       /\ calc' = [op |-> "ReadPkgData",
                   arg |-> [opened |-> opened, lines |-> lines, ending |-> ending],
                   out |-> ReadPkgData(opened, lines, ending)]
  /\ UNCHANGED <<fs, store, status, lim, proc, cli, srch, wrk, comb, cch>>

\* what the lines of the samples are: a file, a directory, a file under
\* .build-id, the opening of a package, or something else
LineClass(line) ==
  CASE line \in {LineFile, LineFileOpen} -> "file"
    [] line = LineDir -> "dir"
    [] line = LineBuildId -> "build-id"
    [] line \in {LinePackageA, LinePackageB} -> "package"
    [] OTHER -> "other"

\* the name in the opening of a package
LinePackage(line) == IF line = LinePackageA THEN NameA ELSE NameB

\* the names of the records the lines call for: one per file that is no
\* directory and not under .build-id, under the package opened last
RECURSIVE NamesCalledFor(_, _)
NamesCalledFor(lines, currentPkg) ==
  IF lines = << >> THEN << >>
  ELSE LET c == LineClass(Head(lines))
       IN (IF c = "file" THEN <<currentPkg>> ELSE << >>)
            \o NamesCalledFor(Tail(lines),
                 IF c = "package" THEN LinePackage(Head(lines)) ELSE currentPkg)


----------------------------------------------------------------------------
(* Search calls running side by side on one shard that no Replace touches: *)
(* every call has its own opts, results and workers; iterOpts is shared    *)
(* and only read.                                                          *)

\* the calls that run at the same time
SearchIds == {1, 2}

\* opt := opts[0]
LastOpt(opts) == opts[Len(opts)]

FirstOpt(opts) == opts[1]

\* a call's locals; pops counts, for every range, the times it was taken
\* off the call's queue
CallInit(tags, k) ==
  [tags |-> tags, pc |-> "run", res |-> "none", opts |-> startChars,
   pops |-> [r \in Range(startChars) |-> 0], results |-> << >>, out |-> << >>,
   wrk |-> [w \in Workers |-> [pc |-> IF w <= k THEN "pop" ELSE "off", opt |-> 0]]]

\* the calls start on a store of k SearchThreads; a call whose tags do
\* not match tagRegex returns at once
SearchesCall ==
  /\ calc.op = "none"
  /\ \E db \in {DBQ, DBB}, k \in Workers, tags \in [SearchIds -> SearchInputs] :
       calc' = [op |-> "Search", arg |-> [db |-> db, k |-> k],
                out |-> [c \in SearchIds |->
                  IF \E i \in 1..Len(tags[c]) : ~TagMatches(tags[c][i])
                  THEN [CallInit(tags[c], 0) EXCEPT !.pc = "ret", !.res = "ErrInvalidTag"]
                  ELSE CallInit(tags[c], k)]]
  /\ UNCHANGED <<fs, store, status, lim, proc, cli, srch, wrk, comb, cch>>

\* under optsMtx: the worker leaves when the queue is empty, else it takes
\* the first range and cuts the queue
SearchesPop(c, w) ==
  /\ calc.op = "Search"
  /\ calc.out[c].pc = "run"
  /\ calc.out[c].wrk[w].pc = "pop"
  /\ LET call == calc.out[c]
     IN IF call.opts = << >>
        THEN calc' = [calc EXCEPT !.out[c].wrk[w].pc = "done"]
        ELSE LET opt == FirstOpt(call.opts)
             IN calc' = [calc EXCEPT !.out[c].wrk[w] = [pc |-> "scan", opt |-> opt],
                                     !.out[c].opts = Tail(@),
                                     !.out[c].pops[opt] = @ + 1]
  /\ UNCHANGED <<fs, store, status, lim, proc, cli, srch, wrk, comb, cch>>

\* GetFilter and the lookups, then the iteration of the range and, under
\* resultsMtx, the append to the call's results; an iterator's error goes
\* to errs
SearchesScan(c, w) ==
  /\ calc.op = "Search"
  /\ calc.out[c].pc = "run"
  /\ calc.out[c].wrk[w].pc = "scan"
  /\ LET call == calc.out[c]
         opt == call.wrk[w].opt
         f == GetFilterValue(calc.arg.db, opt)
     IN IF ~(f.err = ErrNone /\ AnyLookup(f.filter, call.tags))
        THEN calc' = [calc EXCEPT !.out[c].wrk[w].pc = "pop"]
        ELSE \E ok \in BOOLEAN :
               IF ok
               THEN calc' = [calc EXCEPT
                      !.out[c].results = @ \o ScanRange(calc.arg.db, opt, call.tags, 0),
                      !.out[c].wrk[w].pc = "pop"]
               ELSE calc' = [calc EXCEPT !.out[c].wrk[w].pc = "send"]
  /\ UNCHANGED <<fs, store, status, lim, proc, cli, srch, wrk, comb, cch>>

\* the select of a call: an error of a worker, or done once every worker
\* has left
SearchesSelect(c) ==
  /\ calc.op = "Search"
  /\ calc.out[c].pc = "run"
  /\ LET call == calc.out[c]
     IN \/ /\ \E w \in Workers : call.wrk[w].pc = "send"
           /\ calc' = [calc EXCEPT !.out[c].pc = "ret", !.out[c].res = "err"]
        \/ /\ \A w \in Workers : call.wrk[w].pc \in {"done", "off"}
           /\ calc' = [calc EXCEPT !.out[c].pc = "ret", !.out[c].res = "nil",
                                   !.out[c].out = SortResults(call.results)]
  /\ UNCHANGED <<fs, store, status, lim, proc, cli, srch, wrk, comb, cch>>

\* every call has returned
SearchesReturn ==
  /\ calc.op = "Search"
  /\ \A c \in SearchIds : calc.out[c].pc = "ret"
  /\ calc' = CalcInit
  /\ UNCHANGED <<fs, store, status, lim, proc, cli, srch, wrk, comb, cch>>

SearchesNext ==
  \/ SearchesCall
  \/ \E c \in SearchIds, w \in Workers : SearchesPop(c, w)
  \/ \E c \in SearchIds, w \in Workers : SearchesScan(c, w)
  \/ \E c \in SearchIds : SearchesSelect(c)
  \/ SearchesReturn

\* two refreshes of one shard that overlap: each is a Replace call on the
\* same live store
Replacers == {1, 2}

OverlapInit ==
  /\ \E d \in InitialDBs : fs = [live |-> Dir(d), old |-> NoDir, tmp |-> << >>]
  /\ store = [db |-> "open", readers |-> 0, wowner |-> 0, epoch |-> 0]
  /\ status = [up |-> TRUE, restarts |-> 0]
  /\ lim = [pulls |-> 1, recs |-> 0, calls |-> 0]
  /\ proc = [p \in Replacers |-> ProcInit]
  /\ cli = [c \in Clients |-> CliInit]
  /\ srch = SrchInit
  /\ wrk = [w \in Workers |-> WrkInit]
  /\ comb = CombIdle
  /\ cch = CchInit
  /\ calc = CalcInit

OverlapNext ==
  /\ status.up
  /\ \/ \E p \in Replacers : CallReplace(p)
     \/ \E p \in Replacers : Replace(p)

OverlapSpec == OverlapInit /\ [][OverlapNext]_vars

----------------------------------------------------------------------------
(* Pull's receive loop and what follows it, with the calls it makes on the *)
(* second store kept in order: calls is the list of [kind, batch, ok].     *)

\* a flush that leaves collected as it was
FlushKeeps(collected) == collected

\* clear(collected)
Flush(collected) == EmptyMap

LoopInit ==
  [pc |-> "recv", res |-> "none", i |-> 0, collected |-> EmptyMap, recvd |-> << >>,
   calls |-> << >>]

StoreCall(kind, batch, ok) == [kind |-> kind, batch |-> batch, ok |-> ok]

\* the second store is open and the importer task started
LoopCall ==
  /\ calc.op = "none"
  /\ calc' = [op |-> "Pull", arg |-> << >>, out |-> LoopInit]
  /\ UNCHANGED <<fs, store, status, lim, proc, cli, srch, wrk, comb, cch>>

\* one receive: a record, merged into collected and flushed when
\* i >= batchSize; a record with an error; or the close of the channel
LoopRecv ==
  /\ calc.op = "Pull"
  /\ calc.out.pc = "recv"
  /\ LET st == calc.out
     IN \/ /\ Len(st.recvd) < MaxRecs
           /\ \E rec \in Records, ok \in BOOLEAN :
                LET col == Collect(st.collected, rec)
                IN IF st.i >= batchSize
                   THEN calc' = [calc EXCEPT !.out =
                          [st EXCEPT !.recvd = Append(@, rec),
                                     !.calls = Append(@, StoreCall("WriteBatch", col, ok)),
                                     !.collected = IF ok THEN Flush(col) ELSE col,
                                     !.i = IF ok THEN 1 ELSE @,
                                     !.pc = IF ok THEN "recv" ELSE "ret",
                                     !.res = IF ok THEN "none" ELSE "err:writebatch"]]
                   ELSE calc' = [calc EXCEPT !.out =
                          [st EXCEPT !.recvd = Append(@, rec), !.collected = col,
                                     !.i = @ + 1]]
        \/ calc' = [calc EXCEPT !.out.pc = "ret", !.out.res = "err:importer"]
        \/ calc' = [calc EXCEPT !.out.pc = "final"]
  /\ UNCHANGED <<fs, store, status, lim, proc, cli, srch, wrk, comb, cch>>

\* the flush of what is left, when something is left
LoopFinalFlush ==
  /\ calc.op = "Pull"
  /\ calc.out.pc = "final"
  /\ LET st == calc.out
     IN IF st.collected = EmptyMap
        THEN calc' = [calc EXCEPT !.out.pc = "filters"]
        ELSE \E ok \in BOOLEAN :
               calc' = [calc EXCEPT !.out =
                 [st EXCEPT !.calls = Append(@, StoreCall("WriteBatch", st.collected, ok)),
                            !.pc = IF ok THEN "filters" ELSE "ret",
                            !.res = IF ok THEN "none" ELSE "err:writebatch"]]
  /\ UNCHANGED <<fs, store, status, lim, proc, cli, srch, wrk, comb, cch>>

\* s2.WriteFilters, then the parse of Last-Modified and s2.WriteMeta, then
\* s.Replace
LoopFinish ==
  /\ calc.op = "Pull"
  /\ LET st == calc.out
     IN \/ /\ st.pc = "filters"
           /\ \E ok \in BOOLEAN :
                calc' = [calc EXCEPT !.out =
                  [st EXCEPT !.calls = Append(@, StoreCall("WriteFilters", EmptyMap, ok)),
                             !.pc = IF ok THEN "wmeta" ELSE "ret",
                             !.res = IF ok THEN "none" ELSE "err:writefilters"]]
        \/ /\ st.pc = "wmeta"
           /\ \/ calc' = [calc EXCEPT !.out.pc = "ret", !.out.res = "err:parse"]
              \/ \E ok \in BOOLEAN :
                   calc' = [calc EXCEPT !.out =
                     [st EXCEPT !.calls = Append(@, StoreCall("WriteMeta", EmptyMap, ok)),
                                !.pc = IF ok THEN "replace" ELSE "ret",
                                !.res = IF ok THEN "none" ELSE "err:writemeta"]]
        \/ /\ st.pc = "replace"
           /\ \E ok \in BOOLEAN :
                calc' = [calc EXCEPT !.out =
                  [st EXCEPT !.calls = Append(@, StoreCall("Replace", EmptyMap, ok)),
                             !.pc = "ret",
                             !.res = IF ok THEN "nil" ELSE "err:replace"]]
  /\ UNCHANGED <<fs, store, status, lim, proc, cli, srch, wrk, comb, cch>>

\* Pull has returned
LoopReturn ==
  /\ calc.op = "Pull"
  /\ calc.out.pc = "ret"
  /\ calc' = CalcInit
  /\ UNCHANGED <<fs, store, status, lim, proc, cli, srch, wrk, comb, cch>>

LoopNext ==
  \/ LoopCall
  \/ LoopRecv
  \/ LoopFinalFlush
  \/ LoopFinish
  \/ LoopReturn

\* the tags of the records of name n, in the order received
RECURSIVE TagsReceived(_, _)
TagsReceived(recs, n) ==
  IF recs = << >> THEN << >>
  ELSE (IF Head(recs).Name = n THEN Head(recs).Tags ELSE << >>)
         \o TagsReceived(Tail(recs), n)

\* the tags a map of records holds under name n
TagsHeld(batch, n) == IF n \in DOMAIN batch THEN batch[n].Tags ELSE << >>

\* the tags handed to WriteBatch under name n, call after call
RECURSIVE TagsWritten(_, _)
TagsWritten(calls, n) ==
  IF calls = << >> THEN << >>
  ELSE (IF Head(calls).kind = "WriteBatch" THEN TagsHeld(Head(calls).batch, n) ELSE << >>)
         \o TagsWritten(Tail(calls), n)

----------------------------------------------------------------------------
(* The cached store as main builds it: over the combined store of a        *)
(* repository, whose shards the refreshes replace.                         *)

\* combined Search on the shards as they are, every shard taking dur
RECURSIVE SearchShards(_, _, _, _)
SearchShards(shards, i, tags, dur) ==
  IF i > MaxShards THEN [werr |-> ErrNone, results |-> << >>, latency |-> 0]
  ELSE LET r == ShardSearch(shards[i], tags)
           rest == SearchShards(shards, i + 1, tags, dur)
       IN [werr |-> IF r.err # ErrNone THEN r.err ELSE rest.werr,
           results |-> (IF r.err = ErrNone THEN r.results ELSE << >>) \o rest.results,
           latency |-> (IF r.err = ErrNone THEN dur ELSE 0) + rest.latency]

CombinedSearchNow(shards, tags, dur) ==
  LET s == SearchShards(shards, 1, tags, dur)
  IN SearchReturn(s.werr, s.results, s.latency)

\* cached Search(tags) over the combined store
CachedSearchCombined ==
  /\ \E tags \in SearchInputs, dur \in 1..MaxDur :
       LET key == cacheKey(tags)
       IN IF key \in DOMAIN cch.cache
          THEN cch' = [cch EXCEPT !.seq = 1 - @, !.op = "Search", !.tags = tags,
                                  !.called = FALSE, !.under = CchInit.under,
                                  !.res = [err |-> ErrNone,
                                           results |-> cch.cache[key].results,
                                           latency |-> cch.cache[key].latency]]
          ELSE LET s == CombinedSearchNow(comb.shards, tags, dur)
                   r == [err |-> IF s.err = NilErr THEN ErrNone ELSE s.err[1],
                         results |-> s.results,
                         latency |-> IF s.err = NilErr THEN s.latency ELSE 0]
               IN cch' = [cch EXCEPT !.seq = 1 - @, !.op = "Search", !.tags = tags,
                                     !.called = TRUE, !.under = r,
                                     !.res = IF r.err # ErrNone
                                             THEN [err |-> r.err, results |-> << >>,
                                                   latency |-> 0]
                                             ELSE r,
                                     !.cache = CacheStore(@, key, r)]
  /\ UNCHANGED <<fs, store, status, lim, proc, cli, srch, wrk, comb, calc>>

RefreshedNext ==
  \/ CachedSearchCombined
  \/ CacheExpire
  \/ \E i \in Shards : ShardLock(i)
  \/ \E i \in Shards : ShardUnlock(i)

\* calls of the functions
CalcInitial ==
  /\ fs = [live |-> Dir(EmptyDB), old |-> NoDir, tmp |-> << >>]
  /\ store = [db |-> "open", readers |-> 0, wowner |-> 0, epoch |-> 0]
  /\ status = [up |-> TRUE, restarts |-> 0]
  /\ lim = [pulls |-> 0, recs |-> 0, calls |-> 0]
  /\ proc = [p \in Procs |-> ProcInit]
  /\ cli = [c \in Clients |-> CliInit]
  /\ srch = SrchInit
  /\ wrk = [w \in Workers |-> WrkInit]
  /\ comb = CombIdle
  /\ cch = CchInit
  /\ calc = CalcInit

CalcNext ==
  \/ CallGetImporter
  \/ CallGenerate
  \/ CallWriteBatch
  \/ CallGetPkgNamesByPrefix
  \/ CallReadPkgData
  \/ CalcReturn

CalcSpec == CalcInitial /\ [][CalcNext]_vars

SearchesSpec == CalcInitial /\ [][SearchesNext]_vars

LoopSpec == CalcInitial /\ [][LoopNext]_vars

RefreshedSpec == CombinedInit /\ [][RefreshedNext]_vars

----------------------------------------------------------------------------
(* Claims *)

\* C1: while Replace holds the exclusive lock, a call of GetPkg,
\* GetPkgNamesByPrefix, GetFilter, GetMeta, WriteMeta, WriteBatch,
\* WriteFilters or Close that starts on the same store returns ErrBlocked in
\* that very step, having neither taken the read lock nor read or written
\* the database.
C1_BlockedWhileReplacing ==
  [][\A c \in Clients :
       (LockHeld /\ cli'[c].ncalls = cli[c].ncalls + 1)
         => /\ cli'[c].pc = "ret"
            /\ cli'[c].res.err = ErrBlocked
            /\ fs' = fs
            /\ store' = store]_vars

\* C1 witness: a write operation was called under the lock and got ErrBlocked
C1_Witness ==
  \E c \in Clients :
    /\ cli[c].under
    /\ cli[c].op.kind = "WriteBatch"
    /\ cli[c].res.err = ErrBlocked
    /\ ~cli[c].touched

\* C2: a successful Search that ran beside a Replace returns hits read in
\* one database only: never hits of ranges read in the old database with
\* hits of ranges read in the new one.
C2_SearchOneDatabase ==
  (srch.pc = "ret" /\ srch.res = "nil")
    => \A i, j \in 1..Len(srch.out) : srch.out[i].epoch = srch.out[j].epoch

\* C3: when Replace(s, s2) has returned nil, the live path holds exactly
\* the contents s2 had, db-old does not exist, the handle is open and the
\* lock is free; an operation run from then on answers from s2's contents.
C3_ReplaceInstallsNew ==
  [][\A p \in Procs :
       (proc'[p].pc = "ret" /\ proc'[p].res = "nil")
         => /\ fs'.live = Dir(proc'[p].rnew)
            /\ ~fs'.old.exists
            /\ store'.db = "open"
            /\ store'.wowner = 0
            /\ \A c \in Clients :
                 (proc[p].pc = "ret" /\ cli[c].pc = "in" /\ cli'[c].pc = "ret")
                   => cli'[c].res = OpResult(cli[c].op, proc[p].rnew)]_vars

\* C3 witness: a GetPkg that got ErrBlocked during this Replace was called
\* again after it returned nil, and got the new package, which the old
\* shard did not hold
C3_Witness ==
  \E p \in Procs, c \in Clients :
    /\ proc[p].pc = "ret" /\ proc[p].res = "nil"
    /\ cli[c].blockedIn = proc[p].ncalls
    /\ cli[c].pc = "ret" /\ cli[c].op.kind = "GetPkg" /\ cli[c].touched
    /\ cli[c].res.err = ErrNone
    /\ cli[c].res = OpResult(cli[c].op, proc[p].rnew)
    /\ cli[c].res # OpResult(cli[c].op, proc[p].rold.db)

\* C4: when Replace has returned an error, whatever the step that failed,
\* the live shard is as it was: the handle is open and the live path holds
\* the contents it held when Replace was called.
C4_ErrorLeavesOldShard ==
  \A p \in Procs :
    (proc[p].pc = "ret" /\ proc[p].res \notin {"nil", "none"})
      => /\ store.db = "open"
         /\ fs.live = proc[p].rold

\* C5: at every moment of a Replace, and after a restart that follows a
\* crash in it, the live path holds the old shard or the new one: the live
\* directory is never missing, and a restart never opens a shard that is
\* neither.
C5_LivePathOldOrNew ==
  \A p \in Procs :
    proc[p].rold.exists
      => /\ fs.live.exists
         /\ fs.live.db \in {proc[p].rold.db, proc[p].rnew}

\* C6: a step of Pull before it calls Replace changes neither the live
\* directory, nor db-old, nor the live store's lock and handle; a call on
\* the live store that starts while Pull is before Replace is not blocked;
\* and when Pull returns from before Replace, the live directory holds what
\* it held when Pull was called.
C6_PullLeavesLiveUntilReplace ==
  [][\A p \in Procs :
       /\ (proc[p].pc \in PrePhases /\ proc'[p] # proc[p])
            => /\ fs'.live = fs.live
               /\ fs'.old = fs.old
               /\ store' = store
               /\ proc'[p].pc = "ret" => fs'.live = proc[p].started
       /\ \A c \in Clients :
            (proc[p].pc \in PrePhases /\ cli[c].pc # "in" /\ cli'[c].pc # cli[c].pc)
              => cli'[c].pc = "in"]_vars

\* C6 witness: Pull wrote a batch to the second store, then failed in
\* WriteBatch, and a GetPkg on the live store answered meanwhile from the
\* contents the live shard had when Pull was called
C6_Witness ==
  \E p \in Procs, c \in Clients :
    /\ proc[p].pc = "ret" /\ proc[p].res = "err:writebatch"
    /\ fs.tmp[proc[p].s2dir].db.pkgs # EmptyMap
    /\ fs.live = proc[p].started
    /\ fs.live.db # EmptyDB
    /\ cli[c].pc = "ret" /\ cli[c].touched
    /\ cli[c].res = OpResult(cli[c].op, proc[p].started.db)
    /\ cli[c].res.err = ErrNone

\* C7: when Pull has returned without any candidate URL having answered
\* 200, it has returned an error, not nil, and the live directory holds
\* what it held when Pull was called.
C7_NoResponseIsError ==
  \A p \in Procs :
    (proc[p].pc = "ret" /\ ~proc[p].resp.ok)
      => /\ proc[p].res # "nil"
         /\ fs.live = proc[p].started

\* C8: when the Pull before this one returned nil on a response with a
\* non-empty ETag, and this Pull's response carries the same ETag, the
\* metadata check ends this Pull with ErrUpToDate and the file system is as
\* it was: no temporary directory, no write, no Replace.
C8_SameETagIsUpToDate ==
  [][\A p \in Procs :
       (/\ proc[p].pc = "meta"
        /\ proc'[p] # proc[p]
        /\ proc[p].prev.res = "nil"
        /\ proc[p].prev.ETag # ""
        /\ proc[p].resp.ETag = proc[p].prev.ETag)
         => /\ proc'[p].pc = "ret"
            /\ proc'[p].res = "ErrUpToDate"
            /\ fs' = fs]_vars

C11_ResultFields ==
  (srch.pc = "ret" /\ srch.res = "nil") =>
    \A i \in 1..Len(srch.out) :
      LET r == srch.out[i]
      IN /\ r.Confidence = [num |-> Len(r.Overlap), den |-> Len(srch.tags)]
         /\ r.Confidence.num > 0
         /\ r.Confidence.num <= r.Confidence.den
         /\ Range(r.Overlap) \subseteq (Range(srch.tags) \cap Range(r.Tags))
         /\ r.Name \in DOMAIN fs.live.db.pkgs
         /\ r.Tags = fs.live.db.pkgs[r.Name]

\* C11 witness: a Search of three tags returned a package of two tags that
\* holds one of them, with confidence 1/3
C11_Witness ==
  /\ srch.pc = "ret" /\ srch.res = "nil"
  /\ Len(srch.tags) = 3
  /\ \E i \in 1..Len(srch.out) :
       /\ srch.out[i].Name = NameAB
       /\ srch.out[i].Confidence = [num |-> 1, den |-> 3]
       /\ srch.out[i].Overlap = <<"lib=libX.so.1">>

\* C12: a successful Search(T) returns every package of the shard that
\* holds a tag of T, once each, whatever the first byte of its name.
C12_EveryMatchReturned ==
  (srch.pc = "ret" /\ srch.res = "nil") =>
    LET pkgs == fs.live.db.pkgs
        matching == {n \in DOMAIN pkgs : Range(pkgs[n]) \cap Range(srch.tags) # {}}
    IN /\ {srch.out[i].Name : i \in 1..Len(srch.out)} = matching
       /\ Len(srch.out) = Cardinality(matching)

\* C13: the list a successful Search returns holds exactly the results the
\* workers merged, ordered by confidence descending and, at equal
\* confidence, by package name ascending.
C13_SortedByConfidenceThenName ==
  (srch.pc = "ret" /\ srch.res = "nil") =>
    /\ Len(srch.out) = Len(srch.results)
    /\ Range(srch.out) = Range(srch.results)
    /\ \A i \in 1..(Len(srch.out) - 1) :
         LET a == srch.out[i]
             b == srch.out[i + 1]
         IN /\ a.Confidence.num * b.Confidence.den >= b.Confidence.num * a.Confidence.den
            /\ (a.Confidence.num * b.Confidence.den = b.Confidence.num * a.Confidence.den)
                 => LexLess(a.Name, b.Name)

\* C13 witness: the workers merged the range of b before the range of a; the
\* list returned is a (1), ab (1/2), b (1/2)
C13_Witness ==
  /\ srch.pc = "ret" /\ srch.res = "nil"
  /\ Len(srch.out) = 3
  /\ srch.out[1].Name = NameA /\ srch.out[1].Confidence = [num |-> 2, den |-> 2]
  /\ srch.out[2].Name = NameAB /\ srch.out[2].Confidence = [num |-> 1, den |-> 2]
  /\ srch.out[3].Name = NameB /\ srch.out[3].Confidence = [num |-> 1, den |-> 2]
  /\ srch.results[1].Name = NameB

\* C14: two successful Searches on one shard whose tag lists hold the same
\* set of tags return the same packages, each with the same confidence and
\* the same set of overlap tags.
C14_SameSetSameResults ==
  (/\ srch.pc = "ret" /\ srch.res = "nil" /\ srch.prev.res = "nil"
   /\ Range(srch.tags) = Range(srch.prev.tags))
    => /\ Len(srch.out) = Len(srch.prev.out)
       /\ \A i \in 1..Len(srch.out) : \E j \in 1..Len(srch.prev.out) :
            LET a == srch.out[i]
                b == srch.prev.out[j]
            IN /\ a.Name = b.Name
               /\ a.Confidence.num * b.Confidence.den = b.Confidence.num * a.Confidence.den
               /\ Range(a.Overlap) = Range(b.Overlap)

\* C15: a Search called with a tag that has not the form kind=value has
\* returned ErrInvalidTag and has started no worker.
C15_InvalidTagRejected ==
  (srch.pc # "idle" /\ \E i \in 1..Len(srch.tags) : ~TagForm(srch.tags[i]))
    => /\ srch.pc = "ret"
       /\ srch.res = "ErrInvalidTag"
       /\ \A w \in Workers : wrk[w].pc = "off"

\* C16: whenever no Pull is running, the live shard holds the metadata key
\* if and only if a Pull into it has returned nil through Replace, and the
\* ETag and LastModified read from the key are those of the response of the
\* last such Pull.
C16_MetaDescribesLastPull ==
  \A p \in Procs :
    (proc[p].pc \in {"idle", "ret"} /\ fs.live.exists) =>
      LET m == GetMetaValue(fs.live.db)
      IN /\ (m.err = ErrNone) <=> (proc[p].done.n > 0)
         /\ (m.err = ErrNone) =>
              /\ m.meta.ETag = proc[p].done.ETag
              /\ m.meta.LastModified = proc[p].done.LastModified

C19_NotFoundIsPebbleErrNotFound ==
  (comb.pc = "ret" /\ comb.op = "GetPkg"
     /\ \A i \in Shards : comb.g[i].err = ErrNotFound) =>
    /\ ErrorsIs(comb.res.err, ErrNotFound)
    /\ comb.page = "no such package"

\* C20: a successful combined GetPkgNamesByPrefix(prefix, n) returns, in
\* ascending order, the n smallest of the names with the prefix that the
\* shards held when they were asked, or all of them when they are fewer.
C20_SmallestNamesWithPrefix ==
  (comb.pc = "ret" /\ comb.op = "GetPkgNamesByPrefix" /\ comb.res.err = NilErr) =>
    LET prefix == comb.name
        held == UNION {{k \in DOMAIN comb.g[i].db.pkgs :
                          /\ Len(k) >= Len(prefix)
                          /\ SubSeq(k, 1, Len(prefix)) = prefix} : i \in Shards}
        sorted == SortKeys(held)
    IN comb.res.names =
         IF Len(sorted) > comb.n THEN SubSeq(sorted, 1, comb.n) ELSE sorted

\* C21: combined Search returns only when the goroutine of every shard has
\* finished.  When no shard failed it returns nil, the hits of all shards
\* (each as often as the shards returned it) ordered by confidence
\* descending then name ascending, and the sum of the shards' elapsed times;
\* when a shard failed it returns the error of a shard and no hits.
C21_CombinedSearch ==
  (comb.pc = "ret" /\ comb.op = "Search") =>
    LET failed == {i \in Shards : comb.g[i].err # ErrNone}
        out == comb.res.results
        RECURSIVE Concat(_), Sum(_)
        Concat(i) == IF i = 0 THEN << >> ELSE Concat(i - 1) \o comb.g[i].results
        Sum(i) == IF i = 0 THEN 0 ELSE Sum(i - 1) + comb.g[i].dur
        all == Concat(MaxShards)
        Count(s, x) == Cardinality({k \in DOMAIN s : s[k] = x})
    IN /\ \A i \in Shards : comb.g[i].pc = "done"
       /\ failed # {} =>
            /\ \E i \in failed : comb.res.err = ErrValue(comb.g[i].err)
            /\ out = << >>
       /\ failed = {} =>
            /\ comb.res.err = NilErr
            /\ Len(out) = Len(all)
            /\ \A k \in DOMAIN all : Count(out, all[k]) = Count(all, all[k])
            /\ \A k \in 1..(Len(out) - 1) : ~ResultBefore(out[k + 1], out[k])
            /\ comb.res.latency = Sum(MaxShards)

\* C21 witness: two shards answered hits for the same tag list, the same
\* package among them with different confidence, and Search returned them
\* merged, a package of lower confidence from one shard after a package of
\* higher confidence from another
C21_Witness ==
  /\ comb.pc = "ret" /\ comb.op = "Search" /\ comb.res.err = NilErr
  /\ \A i \in Shards : comb.g[i].results # << >>
  /\ Len(comb.res.results) >= 4
  /\ \E k \in 2..Len(comb.res.results) :
       /\ comb.res.results[k].Name = comb.res.results[1].Name
       /\ ConfLess(comb.res.results[k].Confidence, comb.res.results[1].Confidence)
  /\ comb.res.latency > MaxDur

C23_GetImporterKnowsEveryType ==
  calc.op = "GetImporter" =>
    IF calc.arg \in {"apt", "dnf", "pacman", "zypper"}
    THEN calc.out.err = ErrNone /\ calc.out.importer = calc.arg
    ELSE calc.out.err # ErrNone

\* C24: on a path with a slash Generate returns, without failing, a list
\* of tags that is not empty: the tags of the first element of the
\* directory whose bucket yields any, and nothing of the later elements;
\* the list is the single tag file=<path> exactly when no element yields
\* a tag.
C24_GenerateStopsAtFirstBucket ==
  (calc.op = "Generate" /\ \E i \in DOMAIN calc.arg : calc.arg[i] = 47) =>
    LET filePath == calc.arg
        lastSlash == LastIndexByte(filePath, 47)
        name == SubSeq(filePath, lastSlash + 1, Len(filePath))
        elems == Split(SubSeq(filePath, 1, lastSlash - 1), 47)
        yields == {k \in DOMAIN elems : Bucket(elems[k], name, filePath) # << >>}
        fallback == <<<<102, 105, 108, 101, 61>> \o filePath>>
    IN /\ calc.out.err = ErrNone
       /\ calc.out.tags # << >>
       /\ \A k \in yields :
            (\A j \in yields : k <= j) =>
              calc.out.tags = Bucket(elems[k], name, filePath)
       /\ (calc.out.tags = fallback) <=> (yields = {})

\* C24 witness: bin/lib/libfoo.so.1 lies under two buckets that yield tags
\* and got the tag of the first alone, bin=libfoo.so.1
C24_Witness ==
  /\ calc.op = "Generate"
  /\ calc.arg = <<98, 105, 110, 47, 108, 105, 98, 47,
                  108, 105, 98, 102, 111, 111, 46, 115, 111, 46, 49>>
  /\ calc.out.tags = <<<<98, 105, 110, 61, 108, 105, 98, 102, 111, 111, 46, 115, 111, 46, 49>>>>

\* C25: for a name under a lib, lib32 or lib64 bucket that holds ".so"
\* followed by a valid soversion, Generate returns the three tags
\* lib=<name>, lib=<name up to .so>, lib=<name before .so without a leading
\* lib> when the name ends in a digit, and lib=<name> alone when it does not.
C25_ThreeVariantsOnlyAfterDigit ==
  (calc.op = "Generate" /\ \E i \in DOMAIN calc.arg : calc.arg[i] = 47) =>
    LET filePath == calc.arg
        lastSlash == LastIndexByte(filePath, 47)
        name == SubSeq(filePath, lastSlash + 1, Len(filePath))
        elems == Split(SubSeq(filePath, 1, lastSlash - 1), 47)
        yields == {k \in DOMAIN elems : Bucket(elems[k], name, filePath) # << >>}
        so == Index(name, <<46, 115, 111>>)
        libName == SubSeq(name, 1, so - 1)
        lib == <<108, 105, 98>>
        underLib == \E k \in yields :
                      /\ \A j \in yields : k <= j
                      /\ elems[k] \in {lib, lib \o <<51, 50>>, lib \o <<54, 52>>}
    IN (underLib /\ so # 0 /\ soversionIsValid(SubSeq(name, so + 3, Len(name)))) =>
         calc.out.tags =
           IF name[Len(name)] >= 48 /\ name[Len(name)] <= 57
           THEN <<lib \o <<61>> \o name,
                  lib \o <<61>> \o libName \o <<46, 115, 111>>,
                  lib \o <<61>> \o TrimPrefix(libName, lib)>>
           ELSE <<lib \o <<61>> \o name>>

\* C26: while Replace holds the store's lock no reader is at work on the
\* live database: no caller holds the read lock, and no Search worker is
\* between the load of a range's filter and the end of that range's scan,
\* about to create an iterator or iterating.
C26_NoScanUnderReplace ==
  LockHeld => /\ store.readers = 0
              /\ \A w \in Workers : wrk[w].pc # "scan"

\* C27: after any calls of WriteBatch on a store, the packages stored are
\* the names that were handed over with at least one tag (the empty name
\* apart), and the value of each, read as GetPkg reads it, is the sorted
\* list without repeats of all the tags handed over for that name.
C27_StoredIsUnionOfSubmitted ==
  calc.op = "WriteBatch" =>
    LET recs == {r \in calc.out.sent : Len(r.Name) > 0 /\ Len(r.Tags) > 0}
        names == {r.Name : r \in recs}
        tagsOf(n) == UNION {Range(r.Tags) : r \in {x \in recs : x.Name = n}}
        sorted(S) == CHOOSE q \in [1..Cardinality(S) -> S] :
                       \A i, j \in 1..Cardinality(S) :
                         i < j => TagRank(q[i]) < TagRank(q[j])
        db == calc.out.db
    IN /\ DOMAIN db.pkgs = names
       /\ \A n \in names : GetPkgValue(db, n).Tags = sorted(tagsOf(n))

\* C28: for a prefix that is not empty and a limit of at least 1, a shard's
\* GetPkgNamesByPrefix returns, in ascending order, the first min(limit, k)
\* of the k stored keys that start with the prefix, also when the prefix
\* ends in the byte 0xFF.
C28_FirstLimitKeysWithPrefix ==
  (calc.op = "GetPkgNamesByPrefix" /\ calc.arg.n >= 1) =>
    LET prefix == calc.arg.prefix
        with == SortKeys({k \in Keys(calc.arg.db) : HasPrefix(k, prefix)})
    IN /\ calc.out.err = ErrNone
       /\ calc.out.names =
            IF Len(with) > calc.arg.n THEN SubSeq(with, 1, calc.arg.n) ELSE with

\* C29: GetPkgNamesByPrefix called with the empty prefix, as the
\* /suggestions handler calls it through the combined store, comes back
\* with a list or an error: the call never ends in a panic.
C29_EmptyPrefixReturns ==
  (comb.op = "GetPkgNamesByPrefix" /\ comb.name = NameEmpty) =>
    /\ comb.pc # "panic"
    /\ \A i \in Shards : comb.g[i].pc # "panic"

\* C30: in a Search of one or more workers every range is taken off the
\* call's queue exactly once, also while another Search runs on the same
\* store, and a Search that succeeds returns the sorted hits of all ranges,
\* whatever the number of workers and the order of their steps.
C30_EveryRangeOnceSameResult ==
  calc.op = "Search" =>
    \A c \in SearchIds :
      LET call == calc.out[c]
      IN /\ \A r \in Range(startChars) : call.pops[r] <= 1
         /\ (call.pc = "ret" /\ call.res = "nil") =>
              /\ \A r \in Range(startChars) : call.pops[r] = 1
              /\ call.out = SortResults(ScanRanges(startChars, calc.arg.db, call.tags))

\* two calls with different tags ran side by side, the workers of the first
\* shared its ranges, and both returned hits
C30_Witness ==
  /\ calc.op = "Search"
  /\ calc.arg.k >= 2
  /\ calc.out[1].tags # calc.out[2].tags
  /\ \A c \in SearchIds :
       /\ calc.out[c].pc = "ret"
       /\ calc.out[c].res = "nil"
       /\ Len(calc.out[c].out) >= 2
  /\ calc.out[1].wrk[1].opt # 0
  /\ calc.out[1].wrk[2].opt # 0

\* C31: when a worker of a Search has met an error other than a missing
\* filter, the Search returns an error and no results; it never returns as
\* a success the hits the other workers have gathered.
C31_WorkerErrorFailsSearch ==
  [][(srch.pc = "run" /\ srch'.pc = "ret" /\ \E w \in Workers : wrk[w].pc = "send")
       => (srch'.res = "err" /\ srch'.out = << >>)]_vars

\* a Search returned an error after another worker had gathered hits
C31_Witness ==
  /\ srch.pc = "ret"
  /\ srch.res = "err"
  /\ srch.results # << >>
  /\ srch.out = << >>

\* C32: every worker of a Search ends, also when the Search returns an
\* error: once the Search has returned, no worker waits to send on errs,
\* where nothing receives any more.
C32_NoWorkerBlockedOnErrs ==
  srch.pc = "ret" => \A w \in Workers : wrk[w].pc # "send"

\* C33: while the process runs, on every path on which Replace returns
\* after it took the exclusive lock, the lock is released once, by the step
\* that leaves the locked section, and a Replace that has returned does not
\* hold the lock, so no later operation is refused with ErrBlocked on its
\* account.
C33_ReplaceReleasesLock ==
  [][(status.up /\ status'.up) =>
       \A p \in Procs :
         /\ (proc[p].pc \in Critical /\ proc'[p].pc \notin Critical)
              => (store.wowner = p /\ store'.wowner = 0)
         /\ (store.wowner = p /\ store'.wowner # p) => proc[p].pc \in Critical
         /\ proc'[p].pc \in {"ret", "rollback", "rmOld2"} => store'.wowner # p]_vars

\* Replace has returned the error of the first rename, and an operation
\* that came after it holds the read lock
C33_Witness ==
  /\ proc[1].pc = "ret"
  /\ proc[1].res = "err:rename1"
  /\ store.wowner = 0
  /\ cli[1].pc = "in"

\* C34: when two Replace calls on one live store overlap, the removal of
\* db-old at the start of one call never deletes the directory the other
\* call has renamed the live database to and may still need for its
\* rollback, and once both have returned the live path holds a database.
C34_OverlappingReplaceKeepsOld ==
  [][/\ \A p \in Replacers, q \in Replacers :
          (p # q /\ proc[p].pc = "rmOld" /\ proc'[p].pc # "rmOld"
             /\ proc[q].pc \in {"rename2", "rollback"} /\ fs.old.exists)
            => fs'.old.exists
     /\ (\A p \in Replacers : proc'[p].pc = "ret") => fs'.live.exists]_vars

\* C35: in a Pull every record received is handed to exactly one WriteBatch
\* call of the second store (what was received is what was written plus
\* what collected still holds, and nothing is left once the last flush is
\* done), collected is empty right after a flush of the loop, WriteFilters
\* and WriteMeta come after the last WriteBatch, and Replace is called only
\* after WriteMeta has succeeded.
C35_EveryRecordInOneBatch ==
  calc.op = "Pull" =>
    LET st == calc.out
        names == {r.Name : r \in Records}
        kinds == [j \in 1..Len(st.calls) |-> st.calls[j].kind]
    IN /\ st.pc \in {"recv", "final"} =>
            \A n \in names :
              TagsReceived(st.recvd, n)
                = TagsWritten(st.calls, n) \o TagsHeld(st.collected, n)
       /\ (st.pc \in {"filters", "wmeta", "replace"} \/ st.res = "nil") =>
            \A n \in names : TagsReceived(st.recvd, n) = TagsWritten(st.calls, n)
       /\ (st.pc = "recv" /\ st.i = 1 /\ st.calls # << >>) => st.collected = EmptyMap
       /\ \A j \in 1..Len(kinds), k \in 1..Len(kinds) :
            (j < k /\ kinds[k] = "WriteBatch") => kinds[j] = "WriteBatch"
       /\ \A k \in 1..Len(kinds) :
            /\ kinds[k] = "WriteMeta" => (k > 1 /\ kinds[k - 1] = "WriteFilters")
            /\ kinds[k] = "Replace" =>
                 (k > 1 /\ kinds[k - 1] = "WriteMeta" /\ st.calls[k - 1].ok)

\* a Pull went through Replace after two records of one name and a third
\* record, with a flush inside the loop and a flush after it
C35_Witness ==
  /\ calc.op = "Pull"
  /\ calc.out.res = "nil"
  /\ Len(calc.out.recvd) = MaxRecs
  /\ \E j \in 1..Len(calc.out.calls), k \in 1..Len(calc.out.calls) :
       /\ j < k
       /\ calc.out.calls[j].kind = "WriteBatch"
       /\ calc.out.calls[k].kind = "WriteBatch"
  /\ \E n \in {r.Name : r \in Records} :
       Len(TagsReceived(calc.out.recvd, n)) >= 3

\* C38: the reader of RPM file lists sends no record for a file line of
\* type "dir" or with a path under .build-id, and exactly one record, under
\* the name of the package opened last, for every other file line.
C38_RpmRecordsPerFileLine ==
  (calc.op = "ReadPkgData" /\ calc.arg.opened /\ calc.out.end = "return") =>
    LET data == SelectSeq(calc.out.sent, LAMBDA m : ~m.Error)
    IN [j \in 1..Len(data) |-> data[j].Name] = NamesCalledFor(calc.arg.lines, << >>)

\* C36: the stream of ReadPkgData ends in one of two ways: out is closed
\* once after the last data record, or one record with an error is sent as
\* the last message and out is never closed.
C36_StreamEndsClosedOrError ==
  calc.op = "ReadPkgData" =>
    LET sent == calc.out.sent
        errors == {j \in 1..Len(sent) : sent[j].Error}
    IN /\ calc.out.end = "return"
       /\ \/ calc.out.closes = 1 /\ errors = {}
          \/ calc.out.closes = 0 /\ errors = {Len(sent)}

\* C37: when a Pull that has opened its second store returns, with nil or
\* with an error, the database of the second store is closed and its
\* distrohop-pull.* directory is gone.
C37_PullLeavesNothingBehind ==
  \A p \in Procs :
    (proc[p].pc = "ret" /\ proc[p].s2dir # 0 /\ proc[p].s2db # "none") =>
      /\ proc[p].s2db = "closed"
      /\ ~fs.tmp[proc[p].s2dir].exists

\* C39: with the shards' contents unchanged, a combined GetPkg of a name
\* returns the package an earlier GetPkg of that name returned, however the
\* per-shard goroutines were scheduled, also when the name is in two shards
\* with different tags.
C39_GetPkgSameForEverySchedule ==
  (/\ comb.pc = "ret" /\ comb.op = "GetPkg" /\ comb.res.err = NilErr
   /\ calc.op = "GetPkg" /\ calc.arg = comb.name /\ calc.out.err = NilErr)
    => comb.res.pkg = calc.out.pkg

\* C40: a cached Search that succeeds while no shard is being replaced
\* returns the hits the shards' present contents give, also for a tag list
\* that was cached before a shard was replaced.
C40_CachedSearchSeesNewContents ==
  [][(cch'.seq # cch.seq /\ cch'.op = "Search" /\ cch'.res.err = ErrNone
        /\ \A i \in Shards : ~comb.shards[i].blocked)
       => \E dur \in 1..MaxDur :
            cch'.res.results = CombinedSearchNow(comb.shards, cch'.tags, dur).results]_vars

============================================================================
